---- MODULE Spec2Model ----
(***************************************************************************)
(* Devbox lifecycle orchestration of sealos-k8s-api: release creation      *)
(* (DevboxManagerService.createDevboxRelease and its background task),     *)
(* teardown (DevboxK8sService.deleteDevbox), provisioning (createDevbox),  *)
(* resource updates, release lookup and deletion, the two status           *)
(* interpreters, and the control-plane objects they act on.  Every action  *)
(* is one awaited control-plane call together with the synchronous code    *)
(* that follows it up to the next await.                                   *)
(***************************************************************************)
EXTENDS Integers, Sequences, FiniteSets, TLC

VARIABLES
  devbox,      \* the Devbox custom object "a": exists, uid, spec.state, status
  releases,    \* the DevBoxRelease objects of the namespace
  call,        \* createDevboxRelease invocations: position, locals, result
  task,        \* processDevboxReleaseAsync tasks, one per invocation
  lastCreate,  \* the most recent createNamespacedCustomObject(devboxreleases)
  stops,       \* stop patches issued, per issuer
  budget,      \* what the environment may still do: patches, faults
  getResult,   \* last answer of GET /:name/release/:tag
  services,    \* Service objects (names)
  ingresses,   \* Ingress objects: name and devbox-manager label
  secrets,     \* Secret objects (names)
  del,         \* deleteDevbox invocation: position, locals, result
  boxes,       \* per Devbox name: the Devbox, Service and Ingress applied
  create,      \* createDevbox invocations: position, params, result
  update,      \* updateDevboxResources invocation: patch document, result
  relDel,      \* deleteDevboxRelease invocation: request, result
  interp       \* a status blob handed to the interpreters and their answers

vars == <<devbox, releases, call, task, lastCreate, stops, budget, getResult,
          services, ingresses, secrets, del,
          boxes, create, update, relDel, interp>>

relVars == <<devbox, releases, call, task, lastCreate, stops, budget, getResult>>
delVars == <<services, ingresses, secrets, del>>
provVars == <<boxes, create, update>>
extVars == <<boxes, create, update, relDel, interp>>

----------------------------------------------------------------------------
(* Bounds *)

\* the createDevboxRelease invocations of one behaviour
Calls == {1, 2}
\* polls of the background task's wait loop (stands for maxWait = 120)
MaxWait == 2
\* start/stop requests of other clients in one behaviour
MaxPatches == 1
\* transport errors the control plane may answer with in one behaviour
MaxFaults == 1
\* deleteDevbox invocations in one behaviour
MaxDeletes == 2
\* rounds of waitForDevboxReady (stands for maxWaitTime / 5 s)
MaxReady == 2
\* updateDevboxResources invocations in one behaviour
MaxUpdates == 2
\* deleteDevboxRelease invocations in one behaviour
MaxRelDeletes == 2
\* characters of a devboxName
MaxNameLen == 3
\* entries of status.conditions
MaxConds == 2
\* evaluations of one status blob
MaxEvals == 2

----------------------------------------------------------------------------
(* Names *)

Ws == "a"
OtherWs == "a-b"
Tags == {"c", "b-c"}
NotesOf(c) == IF c = 1 THEN "n1" ELSE IF c = 2 THEN "n2" ELSE "n3"

----------------------------------------------------------------------------
(* Status blobs.  A status is absent (<<>>) or present (<<blob>>); a blob   *)
(* is a record whose flag fields are booleans and whose text fields are     *)
(* strings.                                                                 *)

NoStatus == <<>>
Status(blob) == <<blob>>

TruthyFlag(s, k) == k \in DOMAIN s /\ s[k] = TRUE
TruthyText(s, k) == k \in DOMAIN s /\ s[k] # ""

parseDevboxStatus(status) ==
  IF Len(status) = 0 THEN "Stopped"
  ELSE LET s == status[1] IN
    IF DOMAIN s = {} THEN "Stopped"
    ELSE IF TruthyFlag(s, "running") THEN "Running"
    ELSE IF TruthyFlag(s, "pending") THEN "Pending"
    ELSE IF TruthyFlag(s, "terminated") THEN "Terminated"
    ELSE IF TruthyText(s, "phase") THEN s.phase
    ELSE IF TruthyText(s, "state") THEN s.state
    ELSE "Unknown"

PhaseStatus(p) == Status([phase |-> p])

----------------------------------------------------------------------------
(* Release objects *)

ReleaseName(devboxName, newTag) == devboxName \o "-" \o newTag

createDevboxReleaseNowMutNotes(devboxName, newTag, notes, devboxUid) ==
  [name |-> ReleaseName(devboxName, newTag) \o "-" \o notes,
   devboxName |-> devboxName, newTag |-> newTag, notes |-> notes,
   ownerUid |-> devboxUid]

\* the releaseSpec built by createDevboxReleaseNow
createDevboxReleaseNow(devboxName, newTag, notes, devboxUid) ==
  [name |-> ReleaseName(devboxName, newTag),
   devboxName |-> devboxName, newTag |-> newTag, notes |-> notes,
   ownerUid |-> devboxUid]

\* a release of another Devbox stored under a colliding key: "a-b" + "c"
ForeignRelease == createDevboxReleaseNow(OtherWs, "c", "n0", 7)

ReleaseExists(name) == \E r \in releases : r.name = name

\* getDevboxRelease: the object, or null on 404
getDevboxRelease(name) == {r \in releases : r.name = name}

----------------------------------------------------------------------------
(* Control plane: the devboxreleases collection.  A create of a name that  *)
(* exists is answered 409 and changes nothing.                              *)

\* outcome of createNamespacedCustomObject(devboxreleases, body)
CreateOutcome(body, fault) ==
  IF fault THEN "error"
  ELSE IF ReleaseExists(body.name) THEN "conflict"
  ELSE "created"

ReleasesAfterCreate(body, fault) ==
  IF CreateOutcome(body, fault) = "created" THEN releases \cup {body}
  ELSE releases

FaultChoices == IF budget.faults > 0 THEN {TRUE, FALSE} ELSE {FALSE}
Spend(fault) == IF fault THEN [budget EXCEPT !.faults = @ - 1] ELSE budget

checkDevboxReleaseExistsMutNever(devboxName, newTag, fault) == FALSE

\* checkDevboxReleaseExists: any error of the read counts as "does not exist"
checkDevboxReleaseExists(devboxName, newTag, fault) ==
  IF fault THEN FALSE
  ELSE getDevboxRelease(ReleaseName(devboxName, newTag)) # {}

----------------------------------------------------------------------------
(* Results of createDevboxRelease *)

NoResult ==
  [success |-> FALSE, message |-> "", error |-> "", needsWaiting |-> "unset",
   release |-> ""]
\* outer catch: '发布版本失败'
ResFailed ==
  [success |-> FALSE, message |-> "release failed", error |-> "exception",
   needsWaiting |-> "unset", release |-> ""]
\* step 1, the branch `if (!devbox)`: 'Devbox 不存在'
ResNotFound ==
  [success |-> FALSE, message |-> "Devbox not found", error |-> "not found",
   needsWaiting |-> "unset", release |-> ""]
\* step 2: '版本已存在', `版本 ${newTag} 已经存在`
ResExists ==
  [success |-> FALSE, message |-> "version exists", error |-> "exists",
   needsWaiting |-> "unset", release |-> ""]
\* 409 of the synchronous create: '版本已存在', '...可能正在处理中或已完成'
ResConflict ==
  [success |-> FALSE, message |-> "version exists",
   error |-> "exists, maybe in progress or completed",
   needsWaiting |-> "unset", release |-> ""]
\* not Stopped: '发布任务已提交...', release.status 'Processing'
ResSubmitted(name) ==
  [success |-> TRUE, message |-> "submitted, stop then release", error |-> "",
   needsWaiting |-> "true", release |-> name]
\* Stopped, created
ResCreated(name) ==
  [success |-> TRUE, message |-> "release submitted", error |-> "",
   needsWaiting |-> "false", release |-> name]

\* after: the invocations that had returned when this one arrived
IdleCall ==
  [pc |-> "idle", newTag |-> "", notes |-> "", status |-> NoStatus, uid |-> 0,
   after |-> {}, result |-> NoResult]
IdleTask == [pc |-> "none", currentState |-> "", waitCount |-> 0, end |-> ""]
NoCreate ==
  [by |-> "", id |-> 0, name |-> "", outcome |-> "none", phase |-> "",
   read |-> "", existed |-> FALSE, changed |-> FALSE]

\* the record of a create call taking effect now
CreateRecord(by, c, body, fault, read) ==
  [by |-> by, id |-> c, name |-> body.name,
   outcome |-> CreateOutcome(body, fault),
   phase |-> parseDevboxStatus(devbox.status), read |-> read,
   existed |-> ReleaseExists(body.name),
   changed |-> ReleasesAfterCreate(body, fault) # releases]

\* the call returns: its locals go out of scope
Return(c, res) ==
  [call EXCEPT ![c].pc = "done", ![c].result = res, ![c].status = NoStatus]

----------------------------------------------------------------------------
(* createDevboxRelease *)

\* POST /:name/release arrives
Invoke(c) ==
  /\ call[c].pc = "idle"
  /\ \A d \in Calls : d < c => call[d].pc # "idle"
  /\ \E tag \in Tags :
       call' = [call EXCEPT ![c] =
                  [IdleCall EXCEPT !.pc = "get", !.newTag = tag,
                                   !.notes = NotesOf(c),
                                   !.after = {d \in Calls : call[d].pc = "done"}]]
  /\ UNCHANGED <<devbox, releases, task, lastCreate, stops, budget, getResult>>
  /\ UNCHANGED delVars
  /\ UNCHANGED extVars

\* 1. getDevbox: throws on every error, 404 included; the throw is caught by
\*    the outer catch.  The `!devbox` branch needs a falsy answer, which
\*    `response.body || response` never is.
GetDevboxStep(c) ==
  /\ call[c].pc = "get"
  /\ \E fault \in FaultChoices :
       /\ budget' = Spend(fault)
       /\ IF fault \/ ~devbox.exists
          THEN call' = Return(c, ResFailed)
          ELSE call' = [call EXCEPT ![c].pc = "check",
                                    ![c].status = devbox.status,
                                    ![c].uid = devbox.uid]
  /\ UNCHANGED <<devbox, releases, task, lastCreate, stops, getResult>>
  /\ UNCHANGED delVars
  /\ UNCHANGED extVars

NotStoppedMutInverted(currentState) == currentState = "Stopped"

\* 3. `currentState !== 'Stopped'`
NotStopped(currentState) == currentState # "Stopped"

CheckExistsStepMutInlineStop(c) ==
  /\ call[c].pc = "check"
  /\ \E fault \in FaultChoices :
       /\ budget' = Spend(fault)
       /\ IF checkDevboxReleaseExists(Ws, call[c].newTag, fault)
          THEN /\ call' = Return(c, ResExists)
               /\ UNCHANGED <<task, devbox, stops>>
          ELSE IF NotStopped(parseDevboxStatus(call[c].status))
          THEN /\ call' = Return(c, ResSubmitted(ReleaseName(Ws, call[c].newTag)))
               /\ task' = [task EXCEPT ![c] = [IdleTask EXCEPT !.pc = "get"]]
               /\ devbox' = [devbox EXCEPT !.state = "Stopped"]
               /\ stops' = [stops EXCEPT ![c] = @ + 1]
          ELSE /\ call' = [call EXCEPT ![c].pc = "create"]
               /\ UNCHANGED <<task, devbox, stops>>
  /\ UNCHANGED <<releases, lastCreate, getResult>>
  /\ UNCHANGED delVars
  /\ UNCHANGED extVars

\* 2. checkDevboxReleaseExists, 3. parseDevboxStatus(devbox.status) and the
\*    branch on it
CheckExistsStep(c) ==
  /\ call[c].pc = "check"
  /\ \E fault \in FaultChoices :
       /\ budget' = Spend(fault)
       /\ IF checkDevboxReleaseExists(Ws, call[c].newTag, fault)
          THEN /\ call' = Return(c, ResExists)
               /\ task' = task
          ELSE IF NotStopped(parseDevboxStatus(call[c].status))
          THEN /\ call' = Return(c, ResSubmitted(ReleaseName(Ws, call[c].newTag)))
               /\ task' = [task EXCEPT ![c] = [IdleTask EXCEPT !.pc = "get"]]
          ELSE /\ call' = [call EXCEPT ![c].pc = "create"]
               /\ task' = task
  /\ UNCHANGED <<devbox, releases, lastCreate, stops, getResult>>
  /\ UNCHANGED delVars
  /\ UNCHANGED extVars

CreateNowResultMutNo409(out, name) ==
  IF out = "created" THEN ResCreated(name) ELSE ResFailed

\* the answer after createDevboxReleaseNow: the summary, the 409 branch of
\* the inner catch, or the rethrow into the outer catch
CreateNowResult(out, name) ==
  IF out = "created" THEN ResCreated(name)
  ELSE IF out = "conflict" THEN ResConflict
  ELSE ResFailed

\* Stopped: createDevboxReleaseNow, 409 answered with the friendly message
CreateNowStep(c) ==
  /\ call[c].pc = "create"
  /\ \E fault \in FaultChoices :
       LET body == createDevboxReleaseNow(Ws, call[c].newTag, call[c].notes,
                                          call[c].uid)
           out == CreateOutcome(body, fault)
       IN /\ budget' = Spend(fault)
          /\ releases' = ReleasesAfterCreate(body, fault)
          /\ lastCreate' = CreateRecord("call", c, body, fault,
                                        parseDevboxStatus(call[c].status))
          /\ call' = Return(c, CreateNowResult(out, body.name))
  /\ UNCHANGED <<devbox, task, stops, getResult>>
  /\ UNCHANGED delVars
  /\ UNCHANGED extVars

----------------------------------------------------------------------------
(* processDevboxReleaseAsync: started, not awaited, by createDevboxRelease; *)
(* every exception ends the task in its catch, which only logs.            *)

\* the task is over: its locals are gone, how it ended is kept
EndedTask(how) == [IdleTask EXCEPT !.pc = "done", !.end = how]
EndTask(c, how) == [task EXCEPT ![c] = EndedTask(how)]

TaskGetMutStopUnlessStopped(c) ==
  /\ task[c].pc = "get"
  /\ \E fault \in FaultChoices :
       /\ budget' = Spend(fault)
       /\ IF fault \/ ~devbox.exists
          THEN task' = EndTask(c, "error")
          ELSE LET currentState == parseDevboxStatus(devbox.status) IN
               task' = [task EXCEPT
                  ![c].currentState = currentState,
                  ![c].pc = IF currentState # "Stopped"
                            THEN "stop" ELSE "poll"]
  /\ UNCHANGED <<devbox, releases, call, lastCreate, stops, getResult>>
  /\ UNCHANGED delVars
  /\ UNCHANGED extVars

\* 1. getDevbox, 2. the decision to stop
TaskGet(c) ==
  /\ task[c].pc = "get"
  /\ \E fault \in FaultChoices :
       /\ budget' = Spend(fault)
       /\ IF fault \/ ~devbox.exists
          THEN task' = EndTask(c, "error")
          ELSE LET currentState == parseDevboxStatus(devbox.status) IN
               task' = [task EXCEPT
                  ![c].currentState = currentState,
                  ![c].pc = IF currentState # "Stopped" /\ currentState # "Stopping"
                            THEN "stop" ELSE "poll"]
  /\ UNCHANGED <<devbox, releases, call, lastCreate, stops, getResult>>
  /\ UNCHANGED delVars
  /\ UNCHANGED extVars

\* stopDevbox: JSON patch replace /spec/state 'Stopped'
TaskStop(c) ==
  /\ task[c].pc = "stop"
  /\ stops' = [stops EXCEPT ![c] = @ + 1]
  /\ \E fault \in FaultChoices :
       /\ budget' = Spend(fault)
       /\ IF fault \/ ~devbox.exists
          THEN /\ task' = EndTask(c, "error")
               /\ devbox' = devbox
          ELSE /\ task' = [task EXCEPT ![c].pc = "poll"]
               /\ devbox' = [devbox EXCEPT !.state = "Stopped"]
  /\ UNCHANGED <<releases, call, lastCreate, getResult>>
  /\ UNCHANGED delVars
  /\ UNCHANGED extVars

IsStoppedMutStopping(currentState) ==
  currentState = "Stopped" \/ currentState = "Stopping"

\* `currentState === 'Stopped'`: the break of the wait loop, and the test
\* after it that lets the task go on to the create
IsStopped(currentState) == currentState = "Stopped"

PollNextMutInvertedExit(t, currentState) ==
  IF IsStopped(currentState) THEN EndedTask("abandoned")
  ELSE IF t.waitCount + 1 < MaxWait
  THEN [t EXCEPT !.currentState = currentState, !.waitCount = @ + 1]
  ELSE [t EXCEPT !.currentState = currentState, !.pc = "create"]

PollNextMutCreateOnTimeout(t, currentState) ==
  IF IsStopped(currentState) \/ t.waitCount + 1 >= MaxWait
  THEN [t EXCEPT !.currentState = currentState, !.pc = "create"]
  ELSE [t EXCEPT !.currentState = currentState, !.waitCount = @ + 1]

\* the task after a poll that read currentState: break towards the create,
\* waitCount++ and another round, or the loop exit with
\* `if (currentState !== 'Stopped') return`
PollNext(t, currentState) ==
  IF IsStopped(currentState)
  THEN [t EXCEPT !.currentState = currentState, !.pc = "create"]
  ELSE IF t.waitCount + 1 < MaxWait
  THEN [t EXCEPT !.currentState = currentState, !.waitCount = @ + 1]
  ELSE EndedTask("timeout")

\* 3. one round of the wait loop: sleep(1000), getDevbox, the test for
\*    'Stopped', waitCount++, and the loop exit with its timeout return
TaskPoll(c) ==
  /\ task[c].pc = "poll"
  /\ task[c].waitCount < MaxWait
  /\ \E fault \in FaultChoices :
       /\ budget' = Spend(fault)
       /\ IF fault \/ ~devbox.exists
          THEN task' = EndTask(c, "error")
          ELSE task' = [task EXCEPT ![c] =
                           PollNext(task[c], parseDevboxStatus(devbox.status))]
  /\ UNCHANGED <<devbox, releases, call, lastCreate, stops, getResult>>
  /\ UNCHANGED delVars
  /\ UNCHANGED extVars

\* 4. createDevboxReleaseNow; a 409 is logged as normal
TaskCreate(c) ==
  /\ task[c].pc = "create"
  /\ \E fault \in FaultChoices :
       LET body == createDevboxReleaseNow(Ws, call[c].newTag, call[c].notes,
                                          call[c].uid)
           out == CreateOutcome(body, fault)
       IN /\ budget' = Spend(fault)
          /\ releases' = ReleasesAfterCreate(body, fault)
          /\ lastCreate' = CreateRecord("task", c, body, fault,
                                        task[c].currentState)
          /\ task' = EndTask(c, out)
  /\ UNCHANGED <<devbox, call, stops, getResult>>
  /\ UNCHANGED delVars
  /\ UNCHANGED extVars

----------------------------------------------------------------------------
(* Other clients and the control plane *)

\* POST /:name/start: startDevbox patches /spec/state to 'Running'
StartRequest ==
  /\ budget.patches > 0
  /\ devbox.exists
  /\ devbox.state # "Running"   \* a patch to the value in place changes nothing
  /\ devbox' = [devbox EXCEPT !.state = "Running"]
  /\ budget' = [budget EXCEPT !.patches = @ - 1]
  /\ UNCHANGED <<releases, call, task, lastCreate, stops, getResult>>
  /\ UNCHANGED delVars
  /\ UNCHANGED extVars

\* POST /:name/stop: stopDevbox patches /spec/state to 'Stopped'
StopRequest ==
  /\ budget.patches > 0
  /\ devbox.exists
  /\ devbox.state # "Stopped"
  /\ devbox' = [devbox EXCEPT !.state = "Stopped"]
  /\ budget' = [budget EXCEPT !.patches = @ - 1]
  /\ UNCHANGED <<releases, call, task, lastCreate, stops, getResult>>
  /\ UNCHANGED delVars
  /\ UNCHANGED extVars

\* the Devbox controller moves status.phase one step towards spec.state
NextPhase(state, phase) ==
  IF state = "Stopped"
  THEN (IF phase = "Stopping" THEN "Stopped" ELSE "Stopping")
  ELSE (IF phase = "Pending" THEN "Running" ELSE "Pending")

Settled == parseDevboxStatus(devbox.status) = devbox.state /\ devbox.status # NoStatus

Reconcile ==
  /\ devbox.exists
  /\ ~Settled
  /\ devbox' = [devbox EXCEPT !.status =
        IF devbox.status = NoStatus /\ devbox.state = "Stopped"
        THEN PhaseStatus("Stopped")
        ELSE PhaseStatus(NextPhase(devbox.state, parseDevboxStatus(devbox.status)))]
  /\ UNCHANGED <<releases, call, task, lastCreate, stops, budget, getResult>>
  /\ UNCHANGED delVars
  /\ UNCHANGED extVars

----------------------------------------------------------------------------
(* Release orchestration *)

NoGet == [asked |-> "", answer |-> "none"]
\* errors: the warnings collected; failed: the dependent deletions answered
\* with an error other than 404; found: the deletions that removed an object;
\* devboxAnswer: how the control plane answered the Devbox deletion; prev,
\* prevClean, prevFound: the invocation before this one; attempts: the
\* control-plane calls issued, in their order; listed: ingresses.items
NoDelResult == [success |-> FALSE, message |-> "", warnings |-> <<>>]
IdleDel ==
  [pc |-> "idle", run |-> 0, items |-> {}, errors |-> <<>>, failed |-> {},
   found |-> {}, devboxAnswer |-> "", result |-> NoDelResult,
   prev |-> NoDelResult, prevClean |-> FALSE, prevFound |-> {},
   attempts |-> <<>>, listed |-> {}]

----------------------------------------------------------------------------
(* Provisioning: DevboxManagerService.createDevbox.  A text parameter is a  *)
(* sequence of characters; a parameter is absent (<<>>, undefined) or given *)
(* (<<text>>).                                                              *)

Absent == <<>>
Given(v) == <<v>>

\* [a-z0-9] of nameRegex
LowerOrDigit == {"a", "b", "z", "0", "9"}
Blank == " "

RECURSIVE TrimLeft(_)
TrimLeft(s) ==
  IF s # <<>> /\ Head(s) = Blank THEN TrimLeft(Tail(s)) ELSE s

RECURSIVE TrimRight(_)
TrimRight(s) ==
  IF s # <<>> /\ s[Len(s)] = Blank
  THEN TrimRight(SubSeq(s, 1, Len(s) - 1)) ELSE s

\* String.prototype.trim
Trim(s) == TrimRight(TrimLeft(s))

\* `!params.x || params.x.trim() === ''`
IsEmptyParam(m) == m = Absent \/ m[1] = <<>> \/ Trim(m[1]) = <<>>

nameRegexMutNoEdges(s) ==
  /\ Len(s) >= 1
  /\ \A i \in 1..Len(s) : s[i] \in LowerOrDigit \cup {"-"}

\* /^[a-z0-9]([-a-z0-9]*[a-z0-9])?$/.test
nameRegex(s) ==
  /\ Len(s) >= 1
  /\ s[1] \in LowerOrDigit
  /\ s[Len(s)] \in LowerOrDigit
  /\ \A i \in 1..Len(s) : s[i] \in LowerOrDigit \cup {"-"}

\* validateParams: the error text, or Absent for null
validateParams(params) ==
  IF IsEmptyParam(params.devboxName) THEN Given("devboxName empty")
  ELSE IF IsEmptyParam(params.urlPrefix) THEN Given("urlPrefix empty")
  ELSE IF IsEmptyParam(params.urlSuffix) THEN Given("urlSuffix empty")
  ELSE IF IsEmptyParam(params.templateID) THEN Given("templateID empty")
  ELSE IF IsEmptyParam(params.image) THEN Given("image empty")
  ELSE IF ~nameRegex(params.devboxName[1]) THEN Given("devboxName format")
  ELSE Absent

\* the characters of a text as one string
RECURSIVE Text(_)
Text(s) == IF s = <<>> THEN "" ELSE Head(s) \o Text(Tail(s))

\* `params.cpu || '1000m'`
OrDefault(m, default) == IF m = Absent \/ m[1] = "" THEN default ELSE m[1]

generateYamlConfigsMutUnlabelled(params) ==
  LET name == Text(params.devboxName[1])
      prefix == Text(params.urlPrefix[1])
      domain == prefix \o "." \o Text(params.urlSuffix[1])
  IN << [kind |-> "Devbox", name |-> name,
         cpu |-> OrDefault(params.cpu, "1000m"),
         memory |-> OrDefault(params.memory, "2048Mi"),
         image |-> Text(params.image[1]), appPort |-> prefix,
         state |-> "Running"],
        [kind |-> "Service", name |-> name, manager |-> name,
         portName |-> prefix],
        [kind |-> "Ingress", name |-> name \o "-" \o prefix,
         manager |-> domain, host |-> domain] >>

\* generateDevboxYamls: [yamls.devbox, yamls.service, yamls.ingress]
generateYamlConfigs(params) ==
  LET name == Text(params.devboxName[1])
      prefix == Text(params.urlPrefix[1])
      domain == prefix \o "." \o Text(params.urlSuffix[1])
  IN << [kind |-> "Devbox", name |-> name,
         cpu |-> OrDefault(params.cpu, "1000m"),
         memory |-> OrDefault(params.memory, "2048Mi"),
         image |-> Text(params.image[1]), appPort |-> prefix,
         state |-> "Running"],
        [kind |-> "Service", name |-> name, manager |-> name,
         portName |-> prefix],
        [kind |-> "Ingress", name |-> name \o "-" \o prefix,
         manager |-> name, host |-> domain] >>

\* an object of the control plane: what was applied, and its status
Stored(manifest, status) == [spec |-> manifest, status |-> status]

SameObject(o, manifest) ==
  o.spec.kind = manifest.kind /\ o.spec.name = manifest.name

\* `kubectl apply -f -`: creates the object, or updates the one of that kind
\* and name to the manifest; a status is kept
kubectlApply(store, manifest) ==
  LET old == {o \in store : SameObject(o, manifest)} IN
  (store \ old) \cup
    { Stored(manifest, IF old = {} THEN NoStatus
                       ELSE (CHOOSE o \in old : TRUE).status) }

\* getNamespacedCustomObject(devboxes, name): the objects found (none: 404)
DevboxesNamed(store, name) ==
  {o \in store : o.spec.kind = "Devbox" /\ o.spec.name = name}

\* checkDevboxExists: 404 and every other error of the read give false
checkDevboxExists(store, name, fault) ==
  IF fault THEN FALSE ELSE DevboxesNamed(store, name) # {}

\* resourceTypes of applyYamlConfigs
ResourceTypes == <<"Devbox", "Service", "Ingress">>

\* answers of createDevbox
NoCreateResult ==
  [success |-> FALSE, message |-> "", error |-> "", devbox |-> Absent]
ResValidation(error) ==
  [success |-> FALSE, message |-> "validation failed", error |-> error,
   devbox |-> Absent]
ResAlreadyExists ==
  [success |-> FALSE, message |-> "Devbox exists", error |-> "already exists",
   devbox |-> Absent]
ResCreateFailed(error) ==
  [success |-> FALSE, message |-> "create failed", error |-> error,
   devbox |-> Absent]
ResCreateOk(o) ==
  [success |-> TRUE, message |-> "created", error |-> "",
   devbox |-> Given([name |-> o.spec.name,
                     status |-> parseDevboxStatus(o.status),
                     cpu |-> o.spec.cpu, memory |-> o.spec.memory])]

\* locals of one createDevbox invocation.  params: the request body; index:
\* the next entry of yamlConfigs; rounds: rounds of the readiness loop done;
\* reads, applies: control-plane calls issued; probe: what the existence
\* check was answered; swallowed: failed reads of the readiness loop
IdleCreate ==
  [pc |-> "idle", params |-> Absent, index |-> 0, rounds |-> 0,
   reads |-> 0, applies |-> 0, probe |-> "none", swallowed |-> 0,
   result |-> NoCreateResult]

CreateReturn(c, res) ==
  [create EXCEPT ![c].pc = "done", ![c].result = res, ![c].index = 0,
                 ![c].rounds = 0]

CreateName(c) == Text(create[c].params[1].devboxName[1])

\* POST /create: validateParams runs before the first await
CreateInvoke(c) ==
  /\ create[c].pc = "idle"
  /\ create[c].params # Absent
  /\ LET validationError == validateParams(create[c].params[1]) IN
     create' = IF validationError # Absent
               THEN CreateReturn(c, ResValidation(validationError[1]))
               ELSE [create EXCEPT ![c].pc = "probe"]
  /\ UNCHANGED <<boxes, update, relDel, interp, budget>>
  /\ UNCHANGED <<devbox, releases, call, task, lastCreate, stops, getResult>>
  /\ UNCHANGED delVars

\* 3. checkDevboxExists
CreateProbe(c) ==
  /\ create[c].pc = "probe"
  /\ \E fault \in FaultChoices :
       LET exists == checkDevboxExists(boxes, CreateName(c), fault)
           seen == [create EXCEPT
                      ![c].reads = @ + 1,
                      ![c].probe = IF fault THEN "error"
                                   ELSE IF exists THEN "found" ELSE "absent"]
       IN /\ budget' = Spend(fault)
          /\ create' = IF exists
                       THEN [seen EXCEPT ![c].pc = "done",
                                         ![c].result = ResAlreadyExists]
                       ELSE [seen EXCEPT ![c].pc = "apply", ![c].index = 1]
  /\ UNCHANGED <<boxes, update, relDel, interp>>
  /\ UNCHANGED <<devbox, releases, call, task, lastCreate, stops, getResult>>
  /\ UNCHANGED delVars

CreateApplyMutRollback(c) ==
  /\ create[c].pc = "apply"
  /\ \E fault \in FaultChoices :
       LET i == create[c].index
           yamlConfigs == generateYamlConfigs(create[c].params[1])
           manifest == yamlConfigs[i]
           issued == [create EXCEPT ![c].applies = @ + 1]
       IN /\ budget' = Spend(fault)
          /\ boxes' = IF fault
                       THEN {o \in boxes :
                               \A k \in 1..i : ~SameObject(o, yamlConfigs[k])}
                       ELSE kubectlApply(boxes, manifest)
          /\ create' =
               IF fault
               THEN [issued EXCEPT
                       ![c].pc = "done", ![c].index = 0,
                       ![c].result =
                          ResCreateFailed("apply " \o ResourceTypes[i])]
               ELSE IF i < Len(ResourceTypes)
               THEN [issued EXCEPT ![c].index = i + 1]
               ELSE [issued EXCEPT ![c].pc = "wait", ![c].index = 0]
  /\ UNCHANGED <<update, relDel, interp>>
  /\ UNCHANGED <<devbox, releases, call, task, lastCreate, stops, getResult>>
  /\ UNCHANGED delVars

CreateApplyMutContinue(c) ==
  /\ create[c].pc = "apply"
  /\ \E fault \in FaultChoices :
       LET i == create[c].index
           manifest == generateYamlConfigs(create[c].params[1])[i]
           issued == [create EXCEPT ![c].applies = @ + 1]
       IN /\ budget' = Spend(fault)
          /\ boxes' = IF fault THEN boxes ELSE kubectlApply(boxes, manifest)
          /\ create' =
               IF i < Len(ResourceTypes)
               THEN [issued EXCEPT ![c].index = i + 1]
               ELSE [issued EXCEPT ![c].pc = "wait", ![c].index = 0]
  /\ UNCHANGED <<update, relDel, interp>>
  /\ UNCHANGED <<devbox, releases, call, task, lastCreate, stops, getResult>>
  /\ UNCHANGED delVars

\* 5. one round of applyYamlConfigs: kubectl apply of yamlConfigs[index]; a
\*    failure throws and the objects applied before remain
CreateApply(c) ==
  /\ create[c].pc = "apply"
  /\ \E fault \in FaultChoices :
       LET i == create[c].index
           manifest == generateYamlConfigs(create[c].params[1])[i]
           issued == [create EXCEPT ![c].applies = @ + 1]
       IN /\ budget' = Spend(fault)
          /\ boxes' = IF fault THEN boxes ELSE kubectlApply(boxes, manifest)
          /\ create' =
               IF fault
               THEN [issued EXCEPT
                       ![c].pc = "done", ![c].index = 0,
                       ![c].result =
                          ResCreateFailed("apply " \o ResourceTypes[i])]
               ELSE IF i < Len(ResourceTypes)
               THEN [issued EXCEPT ![c].index = i + 1]
               ELSE [issued EXCEPT ![c].pc = "wait", ![c].index = 0]
  /\ UNCHANGED <<update, relDel, interp>>
  /\ UNCHANGED <<devbox, releases, call, task, lastCreate, stops, getResult>>
  /\ UNCHANGED delVars

WaitNextMutNoTimeout(cr) ==
  IF cr.rounds + 1 < MaxReady THEN [cr EXCEPT !.rounds = @ + 1] ELSE cr

\* the createDevbox invocation after a round of the readiness loop that did
\* not return: sleep(5000), then the loop test; leaving the loop throws
WaitNext(cr) ==
  IF cr.rounds + 1 < MaxReady
  THEN [cr EXCEPT !.rounds = @ + 1]
  ELSE [cr EXCEPT !.pc = "done", !.rounds = 0,
                  !.result = ResCreateFailed("not ready in time")]

CreateWaitMutAnyPhase(c) ==
  /\ create[c].pc = "wait"
  /\ \E fault \in FaultChoices :
       LET found == DevboxesNamed(boxes, CreateName(c))
           read == [create[c] EXCEPT !.reads = @ + 1]
       IN /\ budget' = Spend(fault)
          /\ create' = [create EXCEPT ![c] =
               IF fault \/ found = {}
               THEN WaitNext([read EXCEPT !.swallowed = @ + 1])
               ELSE LET o == CHOOSE o \in found : TRUE IN
                    [read EXCEPT !.pc = "done", !.rounds = 0,
                                 !.result = ResCreateOk(o)]]
  /\ UNCHANGED <<boxes, update, relDel, interp>>
  /\ UNCHANGED <<devbox, releases, call, task, lastCreate, stops, getResult>>
  /\ UNCHANGED delVars

\* 6. one round of waitForDevboxReady: getDevbox, parseDevboxStatus; an
\*    error of the read is caught and followed by the same sleep
CreateWait(c) ==
  /\ create[c].pc = "wait"
  /\ \E fault \in FaultChoices :
       LET found == DevboxesNamed(boxes, CreateName(c))
           read == [create[c] EXCEPT !.reads = @ + 1]
       IN /\ budget' = Spend(fault)
          /\ create' = [create EXCEPT ![c] =
               IF fault \/ found = {}
               THEN WaitNext([read EXCEPT !.swallowed = @ + 1])
               ELSE LET o == CHOOSE o \in found : TRUE IN
                    IF parseDevboxStatus(o.status) = "Running"
                    THEN [read EXCEPT !.pc = "done", !.rounds = 0,
                                      !.result = ResCreateOk(o)]
                    ELSE WaitNext(read)]
  /\ UNCHANGED <<boxes, update, relDel, interp>>
  /\ UNCHANGED <<devbox, releases, call, task, lastCreate, stops, getResult>>
  /\ UNCHANGED delVars

\* the Devbox controller brings a Devbox whose spec.state is Running up:
\* no status, then phase Pending, then phase Running
BoxNextStatus(status) ==
  IF status = NoStatus THEN PhaseStatus("Pending") ELSE PhaseStatus("Running")

BoxReconcile ==
  /\ \E o \in boxes :
       /\ o.spec.kind = "Devbox"
       /\ o.spec.state = "Running"
       /\ o.status # PhaseStatus("Running")
       /\ boxes' = (boxes \ {o}) \cup {Stored(o.spec, BoxNextStatus(o.status))}
  /\ UNCHANGED <<create, update, relDel, interp, budget>>
  /\ UNCHANGED <<devbox, releases, call, task, lastCreate, stops, getResult>>
  /\ UNCHANGED delVars

----------------------------------------------------------------------------
(* updateDevboxResources(name, cpu?, memory?) *)

\* `if (cpu)`: given and not the empty string
Truthy(m) == m # Absent /\ m[1] # ""

patchDataMutBothFields(cpu, memory) ==
  [k \in {"cpu", "memory"} |->
     IF k = "cpu" THEN OrDefault(cpu, "") ELSE OrDefault(memory, "")]

\* patchData.spec.resource of DevboxK8sService.updateDevboxResources
patchData(cpu, memory) ==
  [k \in {x \in {"cpu", "memory"} :
            IF x = "cpu" THEN Truthy(cpu) ELSE Truthy(memory)} |->
     IF k = "cpu" THEN cpu[1] ELSE memory[1]]

\* the Devbox spec after the patch document was merged into spec.resource
MergeResource(spec, doc) ==
  [spec EXCEPT !.cpu = IF "cpu" \in DOMAIN doc THEN doc.cpu ELSE @,
               !.memory = IF "memory" \in DOMAIN doc THEN doc.memory ELSE @]

\* patchNamespacedCustomObject(devboxes, name, body)
PatchDevboxes(store, name, doc) ==
  { IF o \in DevboxesNamed(store, name)
    THEN Stored(MergeResource(o.spec, doc), o.status) ELSE o : o \in store }

NoUpdateResult == [success |-> FALSE, message |-> "", changes |-> <<>>]
ResUpdateRejected ==
  [success |-> FALSE, message |-> "cpu or memory required", changes |-> <<>>]
ResUpdateFailed ==
  [success |-> FALSE, message |-> "update failed", changes |-> <<>>]
ResUpdateOk(cpu, memory) ==
  [success |-> TRUE, message |-> "updated",
   changes |-> (IF Truthy(cpu) THEN <<"CPU: " \o cpu[1]>> ELSE <<>>) \o
               (IF Truthy(memory) THEN <<"memory: " \o memory[1]>> ELSE <<>>)]

\* count: invocations so far; name, cpu, memory: the arguments of the last
\* one; patches: the patch documents it sent; applied: whether the control
\* plane accepted the patch
IdleUpdate ==
  [count |-> 0, name |-> "", cpu |-> Absent, memory |-> Absent,
   patches |-> <<>>, applied |-> FALSE, result |-> NoUpdateResult]

UpdateNames == {"a", "a0"}
CpuChoices == {Absent, Given(""), Given("4000m")}
MemoryChoices == {Absent, Given(""), Given("8192Mi")}

\* PATCH /:name/resources: the argument test, and the one awaited patch
UpdateResources ==
  /\ update.count < MaxUpdates
  /\ \E name \in UpdateNames, cpu \in CpuChoices, memory \in MemoryChoices :
       LET asked == [update EXCEPT !.count = @ + 1, !.name = name,
                                   !.cpu = cpu, !.memory = memory,
                                   !.patches = <<>>, !.applied = FALSE]
       IN IF ~Truthy(cpu) /\ ~Truthy(memory)
          THEN /\ update' = [asked EXCEPT !.result = ResUpdateRejected]
               /\ UNCHANGED <<boxes, budget>>
          ELSE \E fault \in FaultChoices :
                 LET doc == patchData(cpu, memory)
                     ok == ~fault /\ DevboxesNamed(boxes, name) # {}
                 IN /\ budget' = Spend(fault)
                    /\ boxes' = IF ok THEN PatchDevboxes(boxes, name, doc)
                                ELSE boxes
                    /\ update' = [asked EXCEPT
                         !.patches = <<doc>>, !.applied = ok,
                         !.result = IF ok THEN ResUpdateOk(cpu, memory)
                                    ELSE ResUpdateFailed]
  /\ UNCHANGED <<create, relDel, interp>>
  /\ UNCHANGED <<devbox, releases, call, task, lastCreate, stops, getResult>>
  /\ UNCHANGED delVars
----------------------------------------------------------------------------
(* deleteDevboxRelease({ devboxName, newTag }) *)

NoRelDelResult == [success |-> FALSE, message |-> ""]
ResRelNotFound == [success |-> FALSE, message |-> "release not found"]
ResRelMismatch == [success |-> FALSE, message |-> "release of another Devbox"]
ResRelFailed == [success |-> FALSE, message |-> "delete failed"]
ResRelDeleted == [success |-> TRUE, message |-> "deleted"]

\* count: invocations so far; devboxName, newTag: the request; read: what
\* the read under the key returned; deletes: delete calls issued
IdleRelDel ==
  [pc |-> "idle", count |-> 0, devboxName |-> "", newTag |-> "",
   read |-> {}, deletes |-> 0, result |-> NoRelDelResult]

OwnedMutAny(release, devboxName) == TRUE

\* `release.spec?.devboxName !== devboxName` negated
Owned(release, devboxName) == release.devboxName = devboxName

\* what deleteDevboxRelease does with the object read: answers, or goes on
\* to the delete
AfterRelRead(rd, found) ==
  IF found = {}
  THEN [rd EXCEPT !.pc = "done", !.result = ResRelNotFound]
  ELSE IF \E r \in found : ~Owned(r, rd.devboxName)
  THEN [rd EXCEPT !.pc = "done", !.read = found, !.result = ResRelMismatch]
  ELSE [rd EXCEPT !.pc = "delete", !.read = found]

\* DELETE /:name/release/:tag: 1. getDevboxRelease, 2. the ownership test
RelDelRead ==
  /\ relDel.pc \in {"idle", "done"}
  /\ relDel.count < MaxRelDeletes
  /\ \E name \in {Ws, OtherWs}, tag \in Tags, fault \in FaultChoices :
       LET rd == [IdleRelDel EXCEPT !.count = relDel.count + 1,
                                    !.devboxName = name, !.newTag = tag]
       IN /\ budget' = Spend(fault)
          /\ relDel' =
               IF fault THEN [rd EXCEPT !.pc = "done", !.result = ResRelFailed]
               ELSE AfterRelRead(rd, getDevboxRelease(ReleaseName(name, tag)))
  /\ UNCHANGED <<boxes, create, update, interp>>
  /\ UNCHANGED <<devbox, releases, call, task, lastCreate, stops, getResult>>
  /\ UNCHANGED delVars

\* 3. deleteNamespacedCustomObject(devboxreleases, releaseName)
RelDelDelete ==
  /\ relDel.pc = "delete"
  /\ \E fault \in FaultChoices :
       LET key == ReleaseName(relDel.devboxName, relDel.newTag)
           ok == ~fault /\ ReleaseExists(key)
       IN /\ budget' = Spend(fault)
          /\ releases' = IF ok THEN {r \in releases : r.name # key}
                         ELSE releases
          /\ relDel' = [relDel EXCEPT
               !.pc = "done", !.deletes = @ + 1,
               !.result = IF ok THEN ResRelDeleted ELSE ResRelFailed]
  /\ UNCHANGED <<boxes, create, update, interp>>
  /\ UNCHANGED <<devbox, call, task, lastCreate, stops, getResult>>
  /\ UNCHANGED delVars
----------------------------------------------------------------------------
(* The status interpreters on arbitrary blobs: parseDevboxStatus and        *)
(* parseReleaseStatus.  A condition is [type, status, time], time being     *)
(* new Date(lastTransitionTime || 0).getTime().                             *)

\* the record with the given <<key, value>> pairs as fields
Blob(fields) ==
  [k \in {f[1] : f \in fields} |-> (CHOOSE f \in fields : f[1] = k)[2]]

\* the i-th condition moved in front of the first one it is newer than
RECURSIVE InsertDesc(_, _)
InsertDesc(sorted, cond) ==
  IF sorted = <<>> THEN <<cond>>
  ELSE IF cond.time > Head(sorted).time THEN <<cond>> \o sorted
  ELSE <<Head(sorted)>> \o InsertDesc(Tail(sorted), cond)

\* Array.prototype.sort with (a, b) => time(b) - time(a): newest first,
\* equal times in their old order
RECURSIVE SortDesc(_)
SortDesc(conditions) ==
  IF conditions = <<>> THEN <<>>
  ELSE InsertDesc(SortDesc(SubSeq(conditions, 1, Len(conditions) - 1)),
                  conditions[Len(conditions)])

HasConditions(s) == "conditions" \in DOMAIN s

\* status.conditions.sort(...), whose element [0] is latestCondition
latestCondition(s) == SortDesc(s.conditions)

ConditionPhaseMutStatus(cond) ==
  IF cond.type = "Ready" /\ cond.status = "True" THEN "Success"
  ELSE cond.status

\* the phase of one condition
ConditionPhase(cond) ==
  IF cond.type = "Ready" /\ cond.status = "True" THEN "Success"
  ELSE IF cond.type = "Failed" /\ cond.status = "True" THEN "Failed"
  ELSE IF cond.type # "" THEN cond.type
  ELSE "Processing"

parseReleaseStatus(status) ==
  IF Len(status) = 0 THEN "Pending"
  ELSE LET s == status[1] IN
    IF TruthyText(s, "phase") THEN s.phase
    ELSE IF HasConditions(s) /\ latestCondition(s) # <<>>
    THEN ConditionPhase(latestCondition(s)[1])
    ELSE IF TruthyText(s, "state") THEN s.state
    ELSE IF "ready" \in DOMAIN s /\ s.ready = TRUE THEN "Success"
    ELSE IF "ready" \in DOMAIN s /\ s.ready = FALSE THEN "Failed"
    ELSE "Processing"

\* the status object after parseReleaseStatus ran on it: sort works in place
AfterParseRelease(status) ==
  IF Len(status) = 0 THEN status
  ELSE LET s == status[1] IN
    IF ~TruthyText(s, "phase") /\ HasConditions(s)
    THEN Status([s EXCEPT !.conditions = latestCondition(s)])
    ELSE status

Maybe(values) == {Absent} \cup {Given(v) : v \in values}

\* the fields of a blob from optional values
Fields(named) == {<<n[1], n[2][1]>> : n \in {m \in named : m[2] # Absent}}

FlagChoices == Maybe(BOOLEAN)
DevboxPhaseTexts == {"", "Running", "Stopping", "Error"}
DevboxStateTexts == {"Stopped", "Shutdown"}

\* status blobs of a Devbox
DevboxBlobs ==
  {NoStatus} \cup
  { Status(Blob(Fields({<<"running", r>>, <<"pending", p>>,
                        <<"terminated", t>>, <<"phase", ph>>,
                        <<"state", st>>}))) :
      r \in FlagChoices, p \in FlagChoices, t \in FlagChoices,
      ph \in Maybe(DevboxPhaseTexts), st \in Maybe(DevboxStateTexts) }

ConditionChoices ==
  [type : {"Ready", "Failed", "Progressing"}, status : {"True", "False"},
   time : 0..2]
ConditionLists == UNION {[1..n -> ConditionChoices] : n \in 0..MaxConds}
ReleasePhaseTexts == {"", "Success", "Failed"}
ReleaseStateTexts == {"Processing", "Queued"}

\* status blobs of a DevBoxRelease
ReleaseBlobs ==
  {NoStatus} \cup
  { Status(Blob(Fields({<<"phase", ph>>, <<"conditions", cs>>,
                        <<"state", st>>, <<"ready", rd>>}))) :
      ph \in Maybe(ReleasePhaseTexts), cs \in Maybe(ConditionLists),
      st \in Maybe(ReleaseStateTexts), rd \in FlagChoices }

\* kind: whose blob; given: the blob as it was handed in; blob: the blob
\* now; phases: the answers of the evaluations so far
IdleInterp == [kind |-> "none", given |-> NoStatus, blob |-> NoStatus,
               phases |-> <<>>]

\* parseDevboxStatus(devbox.status)
EvalDevbox ==
  /\ interp.kind = "Devbox"
  /\ Len(interp.phases) < MaxEvals
  /\ interp' = [interp EXCEPT
                  !.phases = Append(@, parseDevboxStatus(interp.blob))]
  /\ UNCHANGED <<boxes, create, update, relDel>>
  /\ UNCHANGED relVars
  /\ UNCHANGED delVars

\* parseReleaseStatus(release.status)
EvalRelease ==
  /\ interp.kind = "Release"
  /\ Len(interp.phases) < MaxEvals
  /\ interp' = [interp EXCEPT
                  !.phases = Append(@, parseReleaseStatus(interp.blob)),
                  !.blob = AfterParseRelease(interp.blob)]
  /\ UNCHANGED <<boxes, create, update, relDel>>
  /\ UNCHANGED relVars
  /\ UNCHANGED delVars

\* nothing provisioned, updated, deleted or interpreted
ExtIdle ==
  /\ boxes = {}
  /\ create = [c \in Calls |-> IdleCreate]
  /\ update = IdleUpdate
  /\ relDel = IdleRelDel
  /\ interp = IdleInterp

----------------------------------------------------------------------------
(* Release orchestration: the specification *)

DevboxInit ==
  { [exists |-> e, uid |-> 1, state |-> st.state, status |-> st.status] :
      e \in BOOLEAN,
      st \in { [state |-> "Running", status |-> PhaseStatus("Running")],
               [state |-> "Stopped", status |-> PhaseStatus("Stopped")],
               [state |-> "Running", status |-> NoStatus] } }

Init ==
  /\ devbox \in DevboxInit
  /\ releases \in {{}, {ForeignRelease}}
  /\ call = [c \in Calls |-> IdleCall]
  /\ task = [c \in Calls |-> IdleTask]
  /\ lastCreate = NoCreate
  /\ stops = [c \in Calls |-> 0]
  /\ budget = [patches |-> MaxPatches, faults |-> MaxFaults]
  /\ getResult = NoGet
  /\ services = {}
  /\ ingresses = {}
  /\ secrets = {}
  /\ del = IdleDel
  /\ ExtIdle

Next ==
  \/ \E c \in Calls : Invoke(c)
  \/ \E c \in Calls : GetDevboxStep(c)
  \/ \E c \in Calls : CheckExistsStep(c)
  \/ \E c \in Calls : CreateNowStep(c)
  \/ \E c \in Calls : TaskGet(c)
  \/ \E c \in Calls : TaskStop(c)
  \/ \E c \in Calls : TaskPoll(c)
  \/ \E c \in Calls : TaskCreate(c)
  \/ StartRequest
  \/ StopRequest
  \/ Reconcile

Spec == Init /\ [][Next]_vars

----------------------------------------------------------------------------
(* Properties of release creation *)

OwnReleases(tag) == {r \in releases : r.devboxName = Ws /\ r.newTag = tag}
NameOf(c) == ReleaseName(Ws, call[c].newTag)
\* the step answers with a transport error
Faulted == budget'.faults < budget.faults

\* C1: for every (workspace, tag) at most one release object exists at any
\* time and it is stored under <workspace>-<tag>; a create that finds the
\* name taken is rejected (409) and leaves the collection unchanged.
C1_OneReleasePerKey ==
  /\ \A tag \in Tags :
       /\ Cardinality(OwnReleases(tag)) <= 1
       /\ \A r \in OwnReleases(tag) : r.name = ReleaseName(Ws, tag)
  /\ lastCreate.existed =>
       /\ ~lastCreate.changed
       /\ lastCreate.outcome # "created"
       /\ lastCreate.outcome # "error" => lastCreate.outcome = "conflict"

\* two invocations for the same tag raced and the later create was rejected
C1_Witness ==
  /\ call[1].newTag = call[2].newTag
  /\ lastCreate.outcome = "conflict"
  /\ lastCreate.existed
  /\ \E r \in OwnReleases(call[1].newTag) : r.name = lastCreate.name

\* d arrived after an invocation for the same tag had returned success
Second(d) ==
  \E c \in call[d].after :
     call[c].newTag = call[d].newTag /\ call[c].result.success

\* C2 as stated: the second of two createRelease calls for the same
\* (workspace, tag) is answered AlreadyExists or with the conflict answer.
C2_SecondSeesExists ==
  \A d \in Calls :
     call[d].pc = "done" /\ Second(d) =>
        call[d].result \in {ResExists, ResConflict}

\* C2 amended: the second call is answered AlreadyExists when its existence
\* check finds the object and with the conflict answer when its create finds
\* it; while the object does not exist it is answered like a first call:
\* needsWaiting=true and one more background task when the phase it read is
\* not Stopped, and it creates the release itself when it read Stopped.
C2_SecondAnsweredByWhatExists ==
  [][\A d \in Calls : Second(d) =>
       /\ (call[d].pc = "check" /\ call'[d].pc # "check") =>
            IF ReleaseExists(NameOf(d)) /\ ~Faulted
            THEN call'[d].pc = "done" /\ call'[d].result = ResExists
                 /\ task'[d].pc = "none"
            ELSE IF parseDevboxStatus(call[d].status) # "Stopped"
            THEN call'[d].pc = "done"
                 /\ call'[d].result = ResSubmitted(NameOf(d))
                 /\ task'[d].pc = "get"
            ELSE call'[d].pc = "create"
       /\ (call[d].pc = "create" /\ call'[d].pc # "create") =>
            IF Faulted THEN call'[d].result = ResFailed /\ releases' = releases
            ELSE IF ReleaseExists(NameOf(d))
            THEN call'[d].result = ResConflict /\ releases' = releases
            ELSE call'[d].result = ResCreated(NameOf(d))
                 /\ \E r \in releases' \ releases : r.name = NameOf(d)]_vars

\* the second call got needsWaiting=true like the first, with its own task
C2_Witness ==
  /\ call[2].pc = "done"
  /\ 1 \in call[2].after
  /\ call[1].newTag = call[2].newTag
  /\ call[1].result = ResSubmitted(NameOf(1))
  /\ call[2].result = ResSubmitted(NameOf(2))
  /\ task[2].pc # "none"
  /\ ~ReleaseExists(NameOf(2))

\* C3: a createRelease that read phase Stopped and finds no release under
\* <workspace>-<tag> goes on to the create before it returns; when the create
\* is accepted it returns needsWaiting=false with the release in existence,
\* having issued no stop patch and started no background task.
C3_StoppedCreatesBeforeReturn ==
  [][\A c \in Calls :
       /\ (/\ call[c].pc = "check" /\ call'[c].pc # "check"
           /\ parseDevboxStatus(call[c].status) = "Stopped"
           /\ ~ReleaseExists(NameOf(c))) =>
            /\ call'[c].pc = "create"
            /\ task' = task /\ stops' = stops /\ devbox' = devbox
       /\ (/\ call[c].pc = "create" /\ call'[c].pc # "create"
           /\ ~ReleaseExists(NameOf(c)) /\ ~Faulted) =>
            /\ parseDevboxStatus(call[c].status) = "Stopped"
            /\ call'[c].pc = "done"
            /\ call'[c].result.success
            /\ call'[c].result.needsWaiting = "false"
            /\ call'[c].result.release = NameOf(c)
            /\ \E r \in releases' : r.name = NameOf(c)
            /\ lastCreate'.by = "call" /\ lastCreate'.id = c
            /\ stops'[c] = 0 /\ task'[c].pc = "none"
            /\ devbox' = devbox]_vars

C3_Witness ==
  \E c \in Calls :
     /\ call[c].pc = "done"
     /\ call[c].result = ResCreated(NameOf(c))
     /\ lastCreate.by = "call" /\ lastCreate.id = c
     /\ lastCreate.read = "Stopped"
     /\ ReleaseExists(NameOf(c))
     /\ stops[c] = 0 /\ task[c].pc = "none"

\* C4: a createRelease that read a phase other than Stopped (and found no
\* release) returns success, needsWaiting=true and the synthesized summary
\* with no stop patch and no release-create issued; stop patches and the
\* create of that invocation are issued by its background task only, after
\* the call has returned.
C4_ReturnsBeforeStopAndCreate ==
  [][\A c \in Calls :
       /\ (/\ call[c].pc = "check" /\ call'[c].pc # "check"
           /\ parseDevboxStatus(call[c].status) # "Stopped"
           /\ ~(ReleaseExists(NameOf(c)) /\ ~Faulted)) =>
            /\ call'[c].pc = "done"
            /\ call'[c].result.success
            /\ call'[c].result.needsWaiting = "true"
            /\ call'[c].result = ResSubmitted(NameOf(c))
            /\ task'[c].pc = "get"
            /\ stops' = stops /\ stops[c] = 0
            /\ devbox' = devbox /\ releases' = releases
            /\ lastCreate' = lastCreate
       /\ stops'[c] # stops[c] =>
            /\ call[c].pc = "done" /\ call[c].result.needsWaiting = "true"
            /\ task[c].pc = "stop"
       /\ (lastCreate' # lastCreate /\ lastCreate'.id = c
           /\ call[c].result.needsWaiting = "true") =>
            /\ call[c].pc = "done"
            /\ lastCreate'.by = "task" /\ task[c].pc = "create"]_vars

\* the caller has its answer while the task has not yet read the Devbox
C4_Witness ==
  \E c \in Calls :
     /\ call[c].pc = "done"
     /\ call[c].result = ResSubmitted(NameOf(c))
     /\ task[c].pc = "get"
     /\ stops[c] = 0
     /\ devbox.state = "Running"
     /\ ~ReleaseExists(NameOf(c))

C7_CreatedWhileStopped ==
  lastCreate.outcome = "created" => lastCreate.phase = "Stopped"

\* C7 amended: a release-create is issued only by a call or task whose own
\* latest read of the workspace gave phase Stopped; a start request and a
\* status update may change the phase before the create takes effect.
C7_CreatedAfterReadingStopped ==
  /\ lastCreate.outcome # "none" => lastCreate.read = "Stopped"
  /\ \A c \in Calls :
       /\ call[c].pc = "create" => parseDevboxStatus(call[c].status) = "Stopped"
       /\ task[c].pc = "create" => task[c].currentState = "Stopped"

\* the create took effect on a workspace that had been started again
C7_Witness ==
  /\ lastCreate.outcome = "created"
  /\ lastCreate.read = "Stopped"
  /\ lastCreate.phase # "Stopped"

----------------------------------------------------------------------------
(* GET /:name/release/:tag and the release path with a cooperating control  *)
(* plane: no transport errors, no start or stop request of another client.  *)

\* the handler's answer for the object read under <name>-<tag>
GetReleaseAnswer(name, tag) ==
  LET found == getDevboxRelease(ReleaseName(name, tag)) IN
  IF found = {} THEN "notfound"
  ELSE IF \E r \in found : r.devboxName # name THEN "mismatch"
  ELSE "found"

\* DevboxManagerService.getDevboxRelease answers null for every error of
\* the read
GetRelease(tag) ==
  /\ \E fault \in FaultChoices :
       /\ budget' = Spend(fault)
       /\ getResult' = [asked |-> tag,
                        answer |-> IF fault THEN "notfound"
                                   ELSE GetReleaseAnswer(Ws, tag)]
  /\ UNCHANGED <<devbox, releases, call, task, lastCreate, stops>>
  /\ UNCHANGED delVars
  /\ UNCHANGED extVars

LiveInit ==
  /\ devbox = [exists |-> TRUE, uid |-> 1, state |-> "Running",
               status |-> PhaseStatus("Running")]
  /\ releases \in {{}, {ForeignRelease}}
  /\ call = [c \in Calls |-> IdleCall]
  /\ task = [c \in Calls |-> IdleTask]
  /\ lastCreate = NoCreate
  /\ stops = [c \in Calls |-> 0]
  /\ budget = [patches |-> 0, faults |-> 0]
  /\ getResult = NoGet
  /\ services = {}
  /\ ingresses = {}
  /\ secrets = {}
  /\ del = IdleDel
  /\ ExtIdle

CallStep(c) ==
  Invoke(c) \/ GetDevboxStep(c) \/ CheckExistsStep(c) \/ CreateNowStep(c)
TaskStep(c) == TaskGet(c) \/ TaskStop(c) \/ TaskPoll(c) \/ TaskCreate(c)

LiveNext ==
  \/ \E c \in Calls : Invoke(c)
  \/ \E c \in Calls : GetDevboxStep(c)
  \/ \E c \in Calls : CheckExistsStep(c)
  \/ \E c \in Calls : CreateNowStep(c)
  \/ \E c \in Calls : TaskGet(c)
  \/ \E c \in Calls : TaskStop(c)
  \/ \E c \in Calls : TaskPoll(c)
  \/ \E c \in Calls : TaskCreate(c)
  \/ Reconcile
  \/ \E tag \in Tags : GetRelease(tag)

\* the event loop runs every started call and task on; the client keeps
\* polling the release.  Nothing is assumed of the control plane's speed.
LiveSpec ==
  /\ LiveInit /\ [][LiveNext]_vars
  /\ \A c \in Calls : WF_vars(CallStep(c)) /\ WF_vars(TaskStep(c))
  /\ \A tag \in Tags : WF_vars(GetRelease(tag))

\* C5: after createRelease returned needsWaiting=true, either the task's
\* poll window passes without a poll reading Stopped, or the release comes
\* to exist and a getRelease for the tag answers with it.
C5_ReleaseEventuallyFound ==
  \A c \in Calls :
     (call[c].result.needsWaiting = "true") ~>
        \/ task[c].end = "timeout"
        \/ /\ getResult.asked = call[c].newTag
           /\ getResult.answer = "found"
           /\ \E r \in OwnReleases(call[c].newTag) : r.name = NameOf(c)

\* the task of a needsWaiting call created the release and the poll sees it
C5_Witness ==
  \E c \in Calls :
     /\ call[c].result.needsWaiting = "true"
     /\ task[c].end = "created"
     /\ lastCreate.by = "task" /\ lastCreate.id = c
     /\ getResult = [asked |-> call[c].newTag, answer |-> "found"]

----------------------------------------------------------------------------
(* deleteDevbox(name): Services <name> and <name>-svc, the Ingresses        *)
(* labelled cloud.sealos.io/devbox-manager=<name>, Secret <name>, and the   *)
(* Devbox object.                                                            *)

\* the shapes a control-plane error is thrown in: code / statusCode (0 when
\* the field is missing), whether message contains 'not found', and body:
\* missing, a text, a text containing 'not found', or a parsed object
NotFoundErrors ==
  { [code |-> 404, statusCode |-> 0, msgNotFound |-> TRUE, body |-> "textNotFound"],
    [code |-> 404, statusCode |-> 0, msgNotFound |-> FALSE, body |-> "absent"],
    [code |-> 0, statusCode |-> 404, msgNotFound |-> FALSE, body |-> "object"] }
OtherErrors ==
  { [code |-> 500, statusCode |-> 0, msgNotFound |-> FALSE, body |-> "text"],
    [code |-> 500, statusCode |-> 0, msgNotFound |-> FALSE, body |-> "absent"],
    [code |-> 0, statusCode |-> 500, msgNotFound |-> FALSE, body |-> "object"] }

Is404MutStatusCodeOnly(e) == e.statusCode = 404

\* `is404` of the Devbox deletion's catch
Is404(e) ==
  \/ e.code = 404
  \/ e.statusCode = 404
  \/ e.msgNotFound
  \/ e.body = "textNotFound"

\* `devboxError.body.includes` is reached with a body that is no text: the
\* catch block itself throws
Is404Throws(e) ==
  /\ e.code # 404 /\ e.statusCode # 404 /\ ~e.msgNotFound
  /\ e.body = "object"

\* devboxManagerLabel, the selector of deleteIngressByLabel
ManagerLabel(name) == "cloud.sealos.io/devbox-manager=" \o name
IngressesOf(name) == {i \in ingresses : i.manager = ManagerLabel(name)}

\* the answer of deleteDevbox as DevboxManagerService.deleteDevbox passes it on
DelSuccess(errors) ==
  [success |-> TRUE,
   message |-> IF Len(errors) > 0 THEN "deleted, with warnings" ELSE "deleted",
   warnings |-> errors]
\* the outer catch rethrows; DevboxManagerService.deleteDevbox answers
DelFailure == [success |-> FALSE, message |-> "delete failed", warnings |-> <<>>]

\* DELETE /:name arrives
DelInvoke ==
  /\ del.pc \in {"idle", "done"}
  /\ del.run < MaxDeletes
  /\ del' = [IdleDel EXCEPT !.pc = "svc", !.run = del.run + 1,
                            !.prev = del.result, !.prevFound = del.found,
                            !.prevClean = (del.pc = "done" /\ del.failed = {}
                                           /\ del.devboxAnswer # "error")]
  /\ UNCHANGED <<services, ingresses, secrets>>
  /\ UNCHANGED relVars
  /\ UNCHANGED extVars

DeleteServiceMutAbort(pc, name, nextPc) ==
  /\ del.pc = pc
  /\ \E fault \in FaultChoices :
       /\ budget' = Spend(fault)
       /\ services' = IF fault THEN services ELSE services \ {name}
       /\ del' = [del EXCEPT
            !.pc = IF fault THEN "done" ELSE nextPc,
            !.result = IF fault THEN DelFailure ELSE @,
            !.attempts = Append(@, "Service " \o name),
            !.failed = IF fault THEN @ \cup {"Service " \o name} ELSE @,
            !.found = IF ~fault /\ name \in services
                      THEN @ \cup {"Service " \o name} ELSE @]
  /\ UNCHANGED <<ingresses, secrets, devbox, releases, call, task, lastCreate,
                 stops, getResult>>
  /\ UNCHANGED extVars

\* deleteServiceByName: every error is swallowed, 404 or not
DeleteService(pc, name, nextPc) ==
  /\ del.pc = pc
  /\ \E fault \in FaultChoices :
       /\ budget' = Spend(fault)
       /\ services' = IF fault THEN services ELSE services \ {name}
       /\ del' = [del EXCEPT
            !.pc = nextPc,
            !.attempts = Append(@, "Service " \o name),
            !.failed = IF fault THEN @ \cup {"Service " \o name} ELSE @,
            !.found = IF ~fault /\ name \in services
                      THEN @ \cup {"Service " \o name} ELSE @]
  /\ UNCHANGED <<ingresses, secrets, devbox, releases, call, task, lastCreate,
                 stops, getResult>>
  /\ UNCHANGED extVars

DelService == DeleteService("svc", Ws, "svc2")
DelServiceSvc == DeleteService("svc2", Ws \o "-svc", "ingList")

\* deleteIngressByLabel: listNamespacedIngress; an error of the list is
\* swallowed and nothing is deleted
DelIngressList ==
  /\ del.pc = "ingList"
  /\ \E fault \in FaultChoices :
       /\ budget' = Spend(fault)
       /\ LET items == IF fault THEN {} ELSE {i.name : i \in IngressesOf(Ws)} IN
          del' = [del EXCEPT
            !.items = items,
            !.listed = items,
            !.attempts = Append(@, "Ingress list"),
            !.pc = IF items = {} THEN "secret" ELSE "ingDel",
            !.failed = IF fault THEN @ \cup {"Ingress list"} ELSE @]
  /\ UNCHANGED <<services, ingresses, secrets, devbox, releases, call, task,
                 lastCreate, stops, getResult>>
  /\ UNCHANGED extVars

\* one round of `for (const ingress of ingresses.items)`: every error of the
\* delete is swallowed
DelIngressDelete ==
  /\ del.pc = "ingDel"
  /\ \E name \in del.items, fault \in FaultChoices :
       /\ budget' = Spend(fault)
       /\ ingresses' = IF fault THEN ingresses
                       ELSE {i \in ingresses : i.name # name}
       /\ del' = [del EXCEPT
            !.items = @ \ {name},
            !.attempts = Append(@, "Ingress " \o name),
            !.pc = IF del.items = {name} THEN "secret" ELSE "ingDel",
            !.failed = IF fault THEN @ \cup {"Ingress " \o name} ELSE @,
            !.found = IF ~fault /\ (\E i \in ingresses : i.name = name)
                      THEN @ \cup {"Ingress " \o name} ELSE @]
  /\ UNCHANGED <<services, secrets, devbox, releases, call, task, lastCreate,
                 stops, getResult>>
  /\ UNCHANGED extVars

\* deleteSecretByName: every error is swallowed, 404 or not
DelSecret ==
  /\ del.pc = "secret"
  /\ \E fault \in FaultChoices :
       /\ budget' = Spend(fault)
       /\ secrets' = IF fault THEN secrets ELSE secrets \ {Ws}
       /\ del' = [del EXCEPT
            !.pc = "devbox",
            !.attempts = Append(@, "Secret " \o Ws),
            !.failed = IF fault THEN @ \cup {"Secret " \o Ws} ELSE @,
            !.found = IF ~fault /\ Ws \in secrets
                      THEN @ \cup {"Secret " \o Ws} ELSE @]
  /\ UNCHANGED <<services, ingresses, devbox, releases, call, task, lastCreate,
                 stops, getResult>>
  /\ UNCHANGED extVars

\* what deleteDevbox makes of the error of the Devbox deletion
AfterDevboxError(e, errors) ==
  IF Is404(e) THEN DelSuccess(errors)
  ELSE IF Is404Throws(e) THEN DelFailure
  ELSE DelSuccess(Append(errors, "Devbox " \o Ws))

\* 5. deleteNamespacedCustomObject(devboxes) and the answer
DelDevbox ==
  /\ del.pc = "devbox"
  /\ \/ /\ devbox.exists
        /\ devbox' = [devbox EXCEPT !.exists = FALSE]
        /\ budget' = budget
        /\ del' = [del EXCEPT !.pc = "done",
                                !.attempts = Append(@, "Devbox " \o Ws),
                                !.devboxAnswer = "deleted",
                              !.found = @ \cup {"Devbox " \o Ws},
                              !.result = DelSuccess(del.errors)]
     \/ /\ ~devbox.exists
        /\ UNCHANGED <<devbox, budget>>
        /\ \E e \in NotFoundErrors :
             del' = [del EXCEPT !.pc = "done",
                                !.attempts = Append(@, "Devbox " \o Ws),
                                !.devboxAnswer = "notfound",
                                !.result = AfterDevboxError(e, del.errors)]
     \/ /\ budget.faults > 0
        /\ budget' = Spend(TRUE)
        /\ devbox' = devbox
        /\ \E e \in OtherErrors :
             del' = [del EXCEPT !.pc = "done",
                                !.attempts = Append(@, "Devbox " \o Ws),
                                !.devboxAnswer = "error",
                                !.result = AfterDevboxError(e, del.errors)]
  /\ UNCHANGED <<services, ingresses, secrets, releases, call, task,
                 lastCreate, stops, getResult>>
  /\ UNCHANGED extVars

IngressPool ==
  { [name |-> "a-ing", manager |-> ManagerLabel(Ws)],
    [name |-> "a-ing2", manager |-> ManagerLabel(Ws)],
    [name |-> "b-ing", manager |-> ManagerLabel(OtherWs)] }

TeardownInit ==
  /\ devbox \in {d \in DevboxInit : d.state = "Running" /\ d.status # NoStatus}
  /\ services \in SUBSET {Ws, Ws \o "-svc", OtherWs}
  /\ ingresses \in SUBSET IngressPool
  /\ secrets \in SUBSET {Ws}
  /\ del = IdleDel
  /\ ExtIdle
  /\ releases = {}
  /\ call = [c \in Calls |-> IdleCall]
  /\ task = [c \in Calls |-> IdleTask]
  /\ lastCreate = NoCreate
  /\ stops = [c \in Calls |-> 0]
  /\ budget = [patches |-> 0, faults |-> MaxFaults]
  /\ getResult = NoGet

TeardownNext ==
  \/ DelInvoke
  \/ DelService
  \/ DelServiceSvc
  \/ DelIngressList
  \/ DelIngressDelete
  \/ DelSecret
  \/ DelDevbox

TeardownSpec == TeardownInit /\ [][TeardownNext]_vars

----------------------------------------------------------------------------
(* Properties of teardown *)

\* no control-plane call of the invocation was answered with an error other
\* than 404
CleanRun == del.failed = {} /\ del.devboxAnswer # "error"

\* C8 as stated: deleteWorkspace reports success=true except when the
\* deletion of the workspace object fails with an error other than NotFound,
\* and then it does not.
C8_FailsOnlyOnDevboxError ==
  del.pc = "done" => (del.result.success <=> del.devboxAnswer # "error")

\* C9 as stated: with the workspace-object deletion succeeding, the answer is
\* success=true with exactly one warning per dependent deletion that failed
\* with an error other than NotFound, naming it.
C9_WarningPerFailedDependent ==
  (del.pc = "done" /\ del.devboxAnswer # "error") =>
     /\ del.result.success
     /\ Len(del.result.warnings) = Cardinality(del.failed)
     /\ \A f \in del.failed :
          \E i \in 1..Len(del.result.warnings) : del.result.warnings[i] = f

\* C10: a deleteWorkspace whose calls are all answered with success or
\* NotFound returns success=true without warnings and leaves none of the
\* workspace's objects; called again right after, it finds everything absent
\* and again returns success=true without warnings.
C10_TeardownIdempotent ==
  (del.pc = "done" /\ CleanRun) =>
     /\ del.result.success
     /\ del.result.warnings = <<>>
     /\ ~devbox.exists
     /\ services \cap {Ws, Ws \o "-svc"} = {}
     /\ secrets \cap {Ws} = {}
     /\ IngressesOf(Ws) = {}
     /\ (del.run >= 2 /\ del.prevClean) =>
          /\ del.prev.success
          /\ del.prev.warnings = <<>>
          /\ del.found = {}
          /\ del.devboxAnswer = "notfound"

\* the second of two deletions in a row: the first removed objects, the
\* second found none
C10_Witness ==
  /\ del.pc = "done" /\ del.run = 2
  /\ del.prevClean /\ CleanRun
  /\ "Devbox a" \in del.prevFound /\ "Service a" \in del.prevFound
  /\ del.found = {}
  /\ del.result = DelSuccess(<<>>)

----------------------------------------------------------------------------
(* Provisioning, resource updates: the specification *)

\* no Devbox "a" for the release orchestration
NoDevbox == [exists |-> FALSE, uid |-> 1, state |-> "Stopped",
             status |-> PhaseStatus("Stopped")]

CallsIdle ==
  /\ call = [c \in Calls |-> IdleCall]
  /\ task = [c \in Calls |-> IdleTask]
  /\ lastCreate = NoCreate
  /\ stops = [c \in Calls |-> 0]
  /\ getResult = NoGet

DelIdle ==
  /\ services = {}
  /\ ingresses = {}
  /\ secrets = {}
  /\ del = IdleDel

\* the characters names are drawn from: lower case, digit, hyphen, upper case
NameChars == {"a", "0", "-", "A"}
NameTexts ==
  UNION {[1..n -> NameChars] : n \in 0..MaxNameLen}
    \cup {<<Blank>>, <<"a", Blank>>}

GoodFields ==
  [urlPrefix |-> Given(<<"p">>), urlSuffix |-> Given(<<"s">>),
   templateID |-> Given(<<"t">>), image |-> Given(<<"i">>)]
EmptyTexts == {Absent, Given(<<>>), Given(<<Blank>>)}
\* the required fields other than the name: all given, or one of them empty
FieldChoices ==
  {GoodFields} \cup
  {[GoodFields EXCEPT ![k] = v] : k \in DOMAIN GoodFields, v \in EmptyTexts}

Params(name, fields, cpu) ==
  [devboxName |-> name, urlPrefix |-> fields.urlPrefix,
   urlSuffix |-> fields.urlSuffix, templateID |-> fields.templateID,
   image |-> fields.image, cpu |-> cpu, memory |-> Absent]

\* request bodies of the first and of the second POST /create
FirstParams ==
  {Params(name, GoodFields, Absent) : name \in Maybe(NameTexts)} \cup
  {Params(Given(<<"a">>), fields, Absent) : fields \in FieldChoices}
SecondParams ==
  {Params(Given(<<"a">>), [GoodFields EXCEPT !.urlPrefix = Given(<<"q">>)],
          Given("2000m"))}

\* a Devbox "a" that is there before the requests, with its Service
ExistingBoxes ==
  { Stored([kind |-> "Devbox", name |-> "a", cpu |-> "500m",
            memory |-> "512Mi", image |-> "i0", appPort |-> "o",
            state |-> "Running"], PhaseStatus("Running")),
    Stored([kind |-> "Service", name |-> "a", manager |-> "a",
            portName |-> "o"], NoStatus) }

ProvisionInit ==
  /\ devbox = NoDevbox
  /\ releases = {}
  /\ CallsIdle
  /\ DelIdle
  /\ budget = [patches |-> 0, faults |-> MaxFaults]
  /\ boxes \in {{}, ExistingBoxes}
  /\ create \in {[c \in Calls |-> [IdleCreate EXCEPT
                     !.params = Given(IF c = 1 THEN p1 ELSE p2)]] :
                   p1 \in FirstParams, p2 \in SecondParams}
  /\ update = IdleUpdate
  /\ relDel = IdleRelDel
  /\ interp = IdleInterp

ProvisionNext ==
  \/ \E c \in Calls : CreateInvoke(c)
  \/ \E c \in Calls : CreateProbe(c)
  \/ \E c \in Calls : CreateApply(c)
  \/ \E c \in Calls : CreateWait(c)
  \/ BoxReconcile

ProvisionSpec == ProvisionInit /\ [][ProvisionNext]_vars

----------------------------------------------------------------------------
(* Resource updates: the specification *)

\* the Devbox "a" with its Service: running, stopped by a client, or still
\* coming up
UpdateBoxes ==
  { {}, ExistingBoxes,
    {IF o.spec.kind = "Devbox"
     THEN Stored([o.spec EXCEPT !.state = "Stopped"], PhaseStatus("Stopped"))
     ELSE o : o \in ExistingBoxes},
    {IF o.spec.kind = "Devbox" THEN Stored(o.spec, NoStatus)
     ELSE o : o \in ExistingBoxes} }

UpdateInit ==
  /\ devbox = NoDevbox
  /\ releases = {}
  /\ CallsIdle
  /\ DelIdle
  /\ budget = [patches |-> 0, faults |-> MaxFaults]
  /\ boxes \in UpdateBoxes
  /\ create = [c \in Calls |-> IdleCreate]
  /\ update = IdleUpdate
  /\ relDel = IdleRelDel
  /\ interp = IdleInterp

UpdateNext ==
  \/ UpdateResources
  \/ BoxReconcile

UpdateSpec == UpdateInit /\ [][UpdateNext]_vars

----------------------------------------------------------------------------
(* Reading and deleting releases: the specification *)

\* the release sets of the namespace: names are unique
ReleaseSets ==
  LET own(tag) == createDevboxReleaseNow(Ws, tag, "n1", 1) IN
  { {}, {own("c")}, {own("b-c")}, {ForeignRelease},
    {own("c"), own("b-c")}, {own("c"), ForeignRelease} }

ReleaseOpsInit ==
  /\ devbox \in {d \in DevboxInit : d.exists}
  /\ releases \in ReleaseSets
  /\ CallsIdle
  /\ DelIdle
  /\ budget = [patches |-> 0, faults |-> MaxFaults]
  /\ ExtIdle

ReleaseOpsNext ==
  \/ \E tag \in Tags : GetRelease(tag)
  \/ RelDelRead
  \/ RelDelDelete

ReleaseOpsSpec == ReleaseOpsInit /\ [][ReleaseOpsNext]_vars

----------------------------------------------------------------------------
(* The interpreters: the specification *)

InterpInit ==
  /\ devbox = NoDevbox
  /\ releases = {}
  /\ CallsIdle
  /\ DelIdle
  /\ budget = [patches |-> 0, faults |-> 0]
  /\ boxes = {}
  /\ create = [c \in Calls |-> IdleCreate]
  /\ update = IdleUpdate
  /\ relDel = IdleRelDel
  /\ interp \in
       {[kind |-> "Devbox", given |-> b, blob |-> b, phases |-> <<>>] :
          b \in DevboxBlobs} \cup
       {[kind |-> "Release", given |-> b, blob |-> b, phases |-> <<>>] :
          b \in ReleaseBlobs}

InterpNext ==
  \/ EvalDevbox
  \/ EvalRelease

InterpSpec == InterpInit /\ [][InterpNext]_vars


----------------------------------------------------------------------------
(* Properties of provisioning *)

\* the existence check of call c gets its answer in this step
Probes(c) == create[c].pc = "probe" /\ create'[c].pc # "probe"

\* C11 as stated: a createDevbox whose name is present in the control plane
\* when the existence check reads it answers AlreadyExists and applies
\* nothing; one whose name is absent goes on to the apply step.
C11_ExistingNameRejected ==
  [][\A c \in Calls :
       Probes(c) =>
         IF DevboxesNamed(boxes, CreateName(c)) # {}
         THEN /\ create'[c].pc = "done"
              /\ create'[c].result = ResAlreadyExists
              /\ create'[c].applies = 0
              /\ boxes' = boxes
         ELSE create'[c].pc = "apply"]_vars

\* the apply of the Devbox manifest by call c takes place in this step
AppliesDevbox(c) ==
  /\ create[c].pc = "apply" /\ create[c].index = 1
  /\ create'[c] # create[c]

\* C12 as stated: when both createDevbox calls for one name were answered
\* "absent" by their existence checks, the call that applies the Devbox
\* second is rejected and the objects of the first stay as they are.
C12_SecondApplyRejected ==
  [][\A c \in Calls :
       ( /\ AppliesDevbox(c)
         /\ \A d \in Calls : create[d].probe = "absent"
         /\ DevboxesNamed(boxes, CreateName(c)) # {} ) =>
           /\ boxes' = boxes
           /\ create'[c].pc = "done"
           /\ ~create'[c].result.success]_vars

\* ^[a-z0-9]([a-z0-9-]*[a-z0-9])?$ read character by character
MatchesNamePattern(s) ==
  /\ s # <<>>
  /\ Head(s) \in LowerOrDigit
  /\ s[Len(s)] \in LowerOrDigit
  /\ \A i \in 2..(Len(s) - 1) : s[i] \in LowerOrDigit \cup {"-"}

EmptyField(m) == m = Absent \/ m[1] = <<>>

InvalidRequest(params) ==
  \/ EmptyField(params.devboxName)
  \/ ~MatchesNamePattern(params.devboxName[1])
  \/ EmptyField(params.urlPrefix)
  \/ EmptyField(params.urlSuffix)
  \/ EmptyField(params.templateID)
  \/ EmptyField(params.image)

\* C13: a createDevbox whose name does not match the pattern or one of whose
\* required fields is empty never gets past the validation: it issues no
\* read and no apply, never polls, and answers with the validation failure.
C13_InvalidRequestMakesNoCall ==
  \A c \in Calls :
    (create[c].params # Absent /\ InvalidRequest(create[c].params[1])) =>
       /\ create[c].pc \in {"idle", "done"}
       /\ create[c].reads = 0
       /\ create[c].applies = 0
       /\ create[c].pc = "done" =>
            /\ ~create[c].result.success
            /\ create[c].result.message = "validation failed"

\* a name ending in a hyphen was turned down while the other call went on
C13_Witness ==
  /\ create[1].pc = "done"
  /\ create[1].params[1].devboxName = Given(<<"a", "-">>)
  /\ create[1].result = ResValidation("devboxName format")
  /\ create[1].reads = 0 /\ create[1].applies = 0
  /\ create[2].pc = "wait"


----------------------------------------------------------------------------
(* Properties of reading and deleting releases *)

\* the objects stored under <devboxName>-<newTag> that another Devbox owns
ForeignUnder(devboxName, newTag) ==
  {r \in getDevboxRelease(ReleaseName(devboxName, newTag)) :
     r.devboxName # devboxName}

\* C14: getRelease and deleteRelease act on the object under
\* <workspace>-<tag> only if its declared Devbox is the requested one.  On a
\* mismatch both answer with the ownership mismatch, which is not the
\* not-found answer, and no delete is issued; with no object under the key
\* both answer not-found and no delete is issued; a delete removes only an
\* object of the requested Devbox.
C14_OwnershipCheckedBeforeActing ==
  [][ /\ (relDel'.count > relDel.count /\ ~Faulted) =>
           LET found == getDevboxRelease(ReleaseName(relDel'.devboxName,
                                                     relDel'.newTag))
               foreign == ForeignUnder(relDel'.devboxName, relDel'.newTag)
           IN /\ releases' = releases
              /\ relDel'.deletes = 0
              /\ found = {} =>
                   relDel'.pc = "done" /\ relDel'.result = ResRelNotFound
              /\ foreign # {} =>
                   relDel'.pc = "done" /\ relDel'.result = ResRelMismatch
              /\ (found # {} /\ foreign = {}) => relDel'.pc = "delete"
      /\ releases' # releases =>
           /\ relDel.pc = "delete"
           /\ \A r \in releases \ releases' :
                /\ r.name = ReleaseName(relDel.devboxName, relDel.newTag)
                /\ r.devboxName = relDel.devboxName
      /\ (getResult' # getResult /\ ~Faulted) =>
           LET found == getDevboxRelease(ReleaseName(Ws, getResult'.asked))
               foreign == ForeignUnder(Ws, getResult'.asked)
           IN /\ releases' = releases
              /\ found = {} <=> getResult'.answer = "notfound"
              /\ foreign # {} <=> getResult'.answer = "mismatch"
      /\ ResRelMismatch # ResRelNotFound ]_vars

\* both operations met the release of another Devbox under the key of "a"
\* and "b-c", and it is still there
C14_Witness ==
  /\ relDel.pc = "done"
  /\ relDel.devboxName = Ws /\ relDel.newTag = "b-c"
  /\ relDel.result = ResRelMismatch
  /\ relDel.deletes = 0
  /\ getResult = [asked |-> "b-c", answer |-> "mismatch"]
  /\ ForeignRelease \in releases


----------------------------------------------------------------------------
(* Properties of resource updates *)

\* the quantities an updateDevboxResources call supplies
Supplied(u) ==
  {k \in {"cpu", "memory"} : u[k] # Absent /\ u[k][1] # ""}

\* C15: updateDevboxResources without cpu and memory is turned down without
\* a control-plane call; with one or both it sends one patch whose document
\* holds the supplied quantities and nothing else, and whatever the control
\* plane does with it, every other field of the Devbox, its status and every
\* other object stay as they were.
C15_PatchTouchesOnlySupplied ==
  [][update'.count > update.count =>
       IF Supplied(update') = {}
       THEN /\ update'.patches = <<>>
            /\ update'.result = ResUpdateRejected
            /\ boxes' = boxes /\ budget' = budget
       ELSE /\ Len(update'.patches) = 1
            /\ DOMAIN update'.patches[1] = Supplied(update')
            /\ \A k \in Supplied(update') :
                 update'.patches[1][k] = update'[k][1]
            /\ Cardinality(boxes') = Cardinality(boxes)
            /\ \A o \in boxes :
                 \E n \in boxes' :
                   /\ n.status = o.status
                   /\ DOMAIN n.spec = DOMAIN o.spec
                   /\ \A k \in DOMAIN o.spec :
                        n.spec[k] # o.spec[k] =>
                          /\ o \in DevboxesNamed(boxes, update'.name)
                          /\ k \in Supplied(update')
                          /\ n.spec[k] = update'[k][1]]_vars

\* a patch of the cpu alone was accepted: the memory and the state of "a"
\* are the old ones
C15_Witness ==
  /\ update.count >= 1
  /\ update.name = "a"
  /\ update.cpu = Given("4000m") /\ update.memory = Given("")
  /\ update.applied
  /\ update.patches = <<[cpu |-> "4000m"]>>
  /\ \E o \in DevboxesNamed(boxes, "a") :
       /\ o.spec.cpu = "4000m" /\ o.spec.memory = "512Mi"
       /\ o.spec.state = "Stopped"


----------------------------------------------------------------------------
(* Properties of the interpreters *)

DevboxPhases ==
  {"Pending", "Running", "Stopping", "Stopped", "Terminated", "Unknown"}
ReleasePhases == {"Pending", "Processing", "Success", "Failed"}

CarriedTexts(status) ==
  IF Len(status) = 0 THEN {}
  ELSE LET s == status[1] IN
    {s[k] : k \in {"phase", "state"} \cap DOMAIN s} \cup
    (IF HasConditions(s)
     THEN {s.conditions[i].type : i \in 1..Len(s.conditions)} ELSE {})

C17_EvaluationLeavesBlob ==
  /\ interp.blob = interp.given
  /\ \A i, j \in 1..Len(interp.phases) : interp.phases[i] = interp.phases[j]


----------------------------------------------------------------------------
(* Properties of the background task and of the polling loops *)

\* C18: the background task issues its create only after a poll of its wait
\* loop read phase Stopped; a task whose polls run out without reading
\* Stopped ends there: it creates nothing, it does not start over, and the
\* answer its caller got stays what it was.
C18_TaskCreatesOnlyAfterStoppedPoll ==
  [][\A c \in Calls :
       /\ (task'[c].pc = "create" /\ task[c].pc # "create") =>
            /\ task[c].pc = "poll"
            /\ ~Faulted
            /\ parseDevboxStatus(devbox.status) = "Stopped"
       /\ (lastCreate' # lastCreate /\ lastCreate'.by = "task"
             /\ lastCreate'.id = c) =>
            /\ task[c].pc = "create"
            /\ task[c].currentState = "Stopped"
       /\ (task'[c].end = "timeout" /\ task[c].end # "timeout") =>
            /\ task[c].pc = "poll"
            /\ releases' = releases
            /\ lastCreate' = lastCreate
            /\ call' = call
       /\ task[c].end = "timeout" => task'[c] = task[c]
       /\ (task'[c] # task[c] /\ call[c].pc = "done") => call'[c] = call[c]
    ]_vars

\* a task ran out of polls: no release under its key, and its caller still
\* holds the needsWaiting answer
C18_Witness ==
  \E c \in Calls :
     /\ task[c].end = "timeout"
     /\ call[c].pc = "done"
     /\ call[c].result.needsWaiting = "true"
     /\ ~ReleaseExists(ReleaseName(Ws, call[c].newTag))

\* C19 as stated: a read of the wait loop of the background task that fails
\* with a transport error does not end the loop; the task polls on until it
\* reads Stopped or its polls run out.
C19_FailedPollContinues ==
  [][\A c \in Calls :
       (task[c].pc = "poll" /\ task'[c] # task[c] /\ Faulted) =>
          /\ task'[c].end # "error"
          /\ task'[c].pc = "poll" \/ task'[c].end = "timeout"]_vars

----------------------------------------------------------------------------
(* The order of teardown *)

\* C20: a deleteDevbox that has answered issued its calls in the order
\* Service <name>, Service <name>-svc, the list of the labelled Ingresses,
\* one delete for each Ingress listed, Secret <name>, Devbox <name>, each
\* once, whatever the calls before it were answered; and while it runs the
\* calls so far are the beginning of that order.
C20_StepsInOrderWhateverFails ==
  LET n == Len(del.attempts)
      head == <<"Service " \o Ws, "Service " \o Ws \o "-svc", "Ingress list">>
      routes == {"Ingress " \o i : i \in del.listed}
  IN /\ \A i \in 1..n : i <= 3 => del.attempts[i] = head[i]
     /\ del.pc \in {"ingDel", "secret"} =>
          /\ n >= 3
          /\ \A i \in 4..n : del.attempts[i] \in routes
     /\ del.pc = "done" =>
          /\ n = 5 + Cardinality(del.listed)
          /\ {del.attempts[i] : i \in 4..(n - 2)} = routes
          /\ del.attempts[n - 1] = "Secret " \o Ws
          /\ del.attempts[n] = "Devbox " \o Ws

\* the first Service deletion failed and everything after it was attempted,
\* two Ingresses and the Devbox included
C20_Witness ==
  /\ del.pc = "done"
  /\ del.failed = {"Service " \o Ws}
  /\ Cardinality(del.listed) = 2
  /\ Len(del.attempts) = 7
  /\ del.devboxAnswer = "deleted"

----------------------------------------------------------------------------
(* Teardown of what createDevbox applied *)

\* the Services of the store by name, as deleteNamespacedService finds them
ServicesIn(store) ==
  {o.spec.name : o \in {x \in store : x.spec.kind = "Service"}}

\* the Ingresses of the store with their devbox-manager label, as
\* listNamespacedIngress matches them against a label selector
IngressesIn(store) ==
  { [name |-> o.spec.name,
     manager |-> "cloud.sealos.io/devbox-manager" \o "=" \o o.spec.manager] :
      o \in {x \in store : x.spec.kind = "Ingress"} }

\* the Devbox of that name as the custom objects API holds it
DevboxIn(store, name) ==
  LET found == DevboxesNamed(store, name) IN
  IF found = {} THEN NoDevbox
  ELSE LET o == CHOOSE o \in found : TRUE IN
       [exists |-> TRUE, uid |-> 1, state |-> o.spec.state,
        status |-> o.status]

\* applyYamlConfigs left after its first k rounds: the store after kubectl
\* apply of yamlConfigs[1..k]
RECURSIVE ApplyFirst(_, _, _)
ApplyFirst(store, yamlConfigs, k) ==
  IF k = 0 THEN store
  ELSE kubectlApply(ApplyFirst(store, yamlConfigs, k - 1), yamlConfigs[k])

\* the Devbox of the store with the status the controller has given it
WithStatus(store, status) ==
  { IF o.spec.kind = "Devbox" THEN Stored(o.spec, status) ELSE o : o \in store }

\* request bodies of POST /create for the Devbox that is torn down
RecoverParams ==
  { Params(Given(<<"a">>), [GoodFields EXCEPT !.urlPrefix = Given(prefix)], cpu) :
      prefix \in {<<"p">>, <<"q", "0">>}, cpu \in {Absent, Given("2000m")} }

\* objects of another Devbox in the namespace
OtherBoxes ==
  { Stored([kind |-> "Service", name |-> OtherWs, manager |-> OtherWs,
            portName |-> "o"], NoStatus),
    Stored([kind |-> "Ingress", name |-> OtherWs \o "-o", manager |-> OtherWs,
            host |-> "o.s"], NoStatus) }

\* createDevbox has returned after applying the first k of its manifests
\* (fewer than three: an apply failed); the Devbox has come up as far as the
\* controller got; then DELETE /:name
RecoverInit ==
  /\ \E params \in RecoverParams, k \in 0..Len(ResourceTypes),
        others \in SUBSET OtherBoxes,
        status \in {NoStatus, PhaseStatus("Pending"), PhaseStatus("Running")} :
       /\ boxes = WithStatus(ApplyFirst(others, generateYamlConfigs(params), k),
                             status)
       /\ create = [c \in Calls |-> IF c = 1
                      THEN [IdleCreate EXCEPT !.pc = "done",
                                              !.params = Given(params),
                                              !.applies = k]
                      ELSE IdleCreate]
  /\ devbox = DevboxIn(boxes, Ws)
  /\ services = ServicesIn(boxes)
  /\ ingresses = IngressesIn(boxes)
  /\ secrets \in SUBSET {Ws}
  /\ del = IdleDel
  /\ releases = {}
  /\ CallsIdle
  /\ budget = [patches |-> 0, faults |-> MaxFaults]
  /\ update = IdleUpdate
  /\ relDel = IdleRelDel
  /\ interp = IdleInterp

RecoverSpec == RecoverInit /\ [][TeardownNext]_vars

\* C21: after createWorkspace has applied any prefix of (workspace, service,
\* route), a deleteWorkspace whose control-plane calls all succeed leaves no
\* workspace object of the name, no Service of the name and no route labelled
\* for the name: none of the objects createWorkspace applied is left.
C21_TeardownRemovesWhatWasApplied ==
  (del.pc = "done" /\ CleanRun) =>
     /\ ~devbox.exists
     /\ Ws \notin services
     /\ IngressesOf(Ws) = {}
     /\ \A k \in 1..create[1].applies :
          LET applied == generateYamlConfigs(create[1].params[1])[k] IN
            /\ applied.kind = "Service" => applied.name \notin services
            /\ applied.kind = "Ingress" =>
                 ~\E i \in ingresses : i.name = applied.name

\* all three objects had been applied, and a first clean teardown removed
\* the Devbox, the Service and the Ingress
C21_Witness ==
  /\ del.pc = "done" /\ del.run = 1 /\ CleanRun
  /\ create[1].applies = 3
  /\ {"Devbox a", "Service a", "Ingress a-p"} \subseteq del.found
  /\ ~devbox.exists /\ Ws \notin services /\ IngressesOf(Ws) = {}

----------------------------------------------------------------------------
(* Properties of provisioning: the apply loop and the readiness wait *)

\* C22: createWorkspace applies workspace, service, route in that order, one
\* at a time; when the apply of object k fails it stops at once: nothing
\* after k is applied, the readiness wait is not started, and the failure it
\* reports names the kind of object k.
C22_AppliesInOrderAbortsOnFailure ==
  [][\A c \in Calls :
       /\ create'[c].applies # create[c].applies =>
            LET k == create[c].applies + 1
                manifest == generateYamlConfigs(create[c].params[1])[k]
            IN /\ create[c].pc = "apply"
               /\ create'[c].applies = k
               /\ k <= Len(ResourceTypes)
               /\ manifest.kind = ResourceTypes[k]
               /\ IF Faulted
                  THEN /\ boxes' = boxes
                       /\ create'[c].pc = "done"
                       /\ ~create'[c].result.success
                       /\ create'[c].result.error = "apply " \o manifest.kind
                  ELSE /\ \E o \in boxes' : o.spec = manifest
                       /\ create'[c].pc = IF k < Len(ResourceTypes)
                                          THEN "apply" ELSE "wait"
       /\ create[c].pc = "done" => create'[c] = create[c]
       /\ create'[c].pc = "wait" => create'[c].applies = Len(ResourceTypes)
       /\ create'[c].pc = "apply" => create'[c].reads = 1
     ]_vars

\* the apply of the Service failed after the Devbox was applied: the call
\* ended there with the Service named, the Ingress never applied, no poll
C22_Witness ==
  /\ create[1].pc = "done"
  /\ create[1].result.error = "apply Service"
  /\ create[1].applies = 2
  /\ create[1].reads = 1
  /\ create[2].pc = "idle"
  /\ DevboxesNamed(boxes, "a") # {}
  /\ ~\E o \in boxes : o.spec.kind \in {"Service", "Ingress"}

\* the rounds of applyYamlConfigs of an invocation that took effect
AppliedBy(cr) ==
  IF cr.result.error \in {"apply " \o ResourceTypes[k] : k \in 1..Len(ResourceTypes)}
  THEN cr.applies - 1
  ELSE cr.applies

\* C23: createWorkspace never deletes anything: no step of it removes an
\* object from the control plane, and when it returns, also after a failed
\* apply or a readiness timeout, every object it applied is still there.
C23_CreateRemovesNothing ==
  [][/\ \A o \in boxes : \E n \in boxes' : SameObject(n, o.spec)
     /\ \A c \in Calls :
          create'[c].pc = "done" /\ create'[c].params # Absent =>
            \A k \in 1..AppliedBy(create'[c]) :
              \E n \in boxes' :
                SameObject(n, generateYamlConfigs(create'[c].params[1])[k])
    ]_vars

\* the readiness wait timed out with all three objects applied, and all
\* three are present
C23_Witness ==
  /\ create[1].pc = "done"
  /\ create[1].result.error = "not ready in time"
  /\ create[1].applies = 3
  /\ \A kind \in {"Devbox", "Service", "Ingress"} :
       \E o \in boxes : o.spec.kind = kind
  /\ DevboxesNamed(boxes, "a") # {}

\* C24: createWorkspace returns success only in the step of a poll that read
\* the workspace in phase Running, after all three applies, and the summary
\* it returns carries status Running; a poll that failed or read another
\* phase never ends in success.
C24_SuccessOnlyOnRunningPoll ==
  [][\A c \in Calls :
       create'[c].result.success /\ ~create[c].result.success =>
         /\ create[c].pc = "wait"
         /\ create'[c].pc = "done"
         /\ create[c].applies = Len(ResourceTypes)
         /\ create'[c].reads = create[c].reads + 1
         /\ ~Faulted
         /\ \E o \in DevboxesNamed(boxes, CreateName(c)) :
              parseDevboxStatus(o.status) = "Running"
         /\ create'[c].result.devbox # Absent
         /\ create'[c].result.devbox[1].status = "Running"
         /\ create'[c].result.devbox[1].name = CreateName(c)
    ]_vars

\* a first poll failed and was swallowed, the next one read Running and the
\* call returned the summary
C24_Witness ==
  /\ create[1].pc = "done"
  /\ create[1].result.success
  /\ create[1].swallowed = 1
  /\ create[1].reads = 3
  /\ create[1].result.devbox[1].status = "Running"

----------------------------------------------------------------------------
(* The two polling loops under a scheduler that runs every continuation *)

CreateStep(c) ==
  CreateInvoke(c) \/ CreateProbe(c) \/ CreateApply(c) \/ CreateWait(c)

\* an invocation slot for which no POST /:name/release arrives
UnusedCall == [IdleCall EXCEPT !.pc = "done"]

\* one POST /create for Devbox "a" and one POST /a/release; the
\* control plane answers as it likes: with errors, and with a Devbox that is
\* brought up or stopped at any speed or not at all
LoopsInit ==
  /\ devbox \in {d \in DevboxInit : d.exists}
  /\ releases = {}
  /\ call = [c \in Calls |-> IF c = 1 THEN IdleCall ELSE UnusedCall]
  /\ task = [c \in Calls |-> IdleTask]
  /\ lastCreate = NoCreate
  /\ stops = [c \in Calls |-> 0]
  /\ getResult = NoGet
  /\ DelIdle
  /\ budget = [patches |-> 0, faults |-> MaxFaults]
  /\ boxes = {}
  /\ create = [c \in Calls |->
                 IF c = 1
                 THEN [IdleCreate EXCEPT
                         !.params = Given(Params(Given(<<"a">>), GoodFields, Absent))]
                 ELSE IdleCreate]
  /\ update = IdleUpdate
  /\ relDel = IdleRelDel
  /\ interp = IdleInterp

LoopsNext ==
  \/ \E c \in Calls : Invoke(c)
  \/ \E c \in Calls : GetDevboxStep(c)
  \/ \E c \in Calls : CheckExistsStep(c)
  \/ \E c \in Calls : CreateNowStep(c)
  \/ \E c \in Calls : TaskGet(c)
  \/ \E c \in Calls : TaskStop(c)
  \/ \E c \in Calls : TaskPoll(c)
  \/ \E c \in Calls : TaskCreate(c)
  \/ Reconcile
  \/ \E c \in Calls : CreateInvoke(c)
  \/ \E c \in Calls : CreateProbe(c)
  \/ \E c \in Calls : CreateApply(c)
  \/ \E c \in Calls : CreateWait(c)
  \/ BoxReconcile

\* the event loop runs every started call and task on when its awaited call
\* or timer returns; nothing is assumed of the controllers
LoopsSpec ==
  /\ LoopsInit /\ [][LoopsNext]_vars
  /\ \A c \in Calls :
       WF_vars(CallStep(c)) /\ WF_vars(TaskStep(c)) /\ WF_vars(CreateStep(c))

\* C25: both polling loops end whatever the control plane reports: the
\* readiness wait of createWorkspace ends in an answer of the call (Running
\* read, or the timeout failure) within its budget of rounds, the stop wait
\* of the release task ends within its budget of polls, and a call or task
\* that has ended does not start its loop again.
C25_PollingLoopsTerminate ==
  /\ \A c \in Calls : (create[c].pc = "wait") ~> (create[c].pc = "done")
  /\ \A c \in Calls : (task[c].pc = "poll") ~> (task[c].pc \in {"create", "done"})
  /\ [][\A c \in Calls :
          /\ create[c].pc = "done" => create'[c].pc = "done"
          /\ task[c].pc = "done" => task'[c].pc = "done"
          /\ task[c].pc = "create" => task'[c].pc \in {"create", "done"}
          /\ create'[c].rounds < MaxReady
          /\ task'[c].waitCount < MaxWait
          /\ create[c].pc = "wait" /\ create'[c].pc = "wait" /\ create'[c] # create[c]
               => create'[c].rounds = create[c].rounds + 1
          /\ task[c].pc = "poll" /\ task'[c].pc = "poll" /\ task'[c] # task[c]
               => task'[c].waitCount = task[c].waitCount + 1
       ]_vars

\* both loops ran out: the readiness wait ended in its timeout failure after
\* MaxReady rounds and a release task ended after MaxWait polls without
\* reading Stopped
C25_Witness ==
  /\ create[1].pc = "done"
  /\ create[1].result.error = "not ready in time"
  /\ create[1].reads = 1 + MaxReady
  /\ \E c \in Calls : task[c].pc = "done" /\ task[c].end = "timeout"

----------------------------------------------------------------------------
(* Further properties of release creation *)

C27_PreconditionsFailCleanly ==
  [][\A c \in Calls :
       /\ call[c].pc = "get" /\ call'[c] # call[c] /\ ~devbox.exists /\ ~Faulted =>
            /\ call'[c].pc = "done"
            /\ call'[c].result = ResNotFound
            /\ UNCHANGED <<task, stops, releases, lastCreate, devbox>>
       /\ call[c].pc = "check" /\ call'[c] # call[c] /\ ReleaseExists(NameOf(c)) =>
            /\ call'[c].pc = "done"
            /\ call'[c].result = ResExists
            /\ UNCHANGED <<task, stops, releases, lastCreate, devbox>>
    ]_vars

----------------------------------------------------------------------------
(* Further properties of the status interpreters *)

\* C28 as stated: first match wins: a status blob that carries a phase is
\* answered with that phase verbatim by both interpreters, also when flags
\* (running, pending, terminated, ready), a state or a conditions list in the
\* same blob would give another phase.
C28_PhaseFieldWins ==
  \A i \in 1..Len(interp.phases) :
    (interp.given # NoStatus /\ TruthyText(interp.given[1], "phase")) =>
       interp.phases[i] = interp.given[1].phase

\* C29 as stated: an absent status blob and a status blob without fields
\* both give Stopped in parseDevboxStatus and both give Pending in
\* parseReleaseStatus.
C29_AbsentAndEmptyAlike ==
  \A i \in 1..Len(interp.phases) :
    (interp.given = NoStatus \/ DOMAIN interp.given[1] = {}) =>
       /\ interp.kind = "Devbox" => interp.phases[i] = "Stopped"
       /\ interp.kind = "Release" => interp.phases[i] = "Pending"

----------------------------------------------------------------------------
(* Ownership in release creation *)

\* C30 as stated: createRelease answers AlreadyExists only when the object
\* stored under <workspace>-<tag> declares that same workspace; an object
\* under the key that belongs to another workspace is not taken for a
\* release of the requested one.
C30_ExistsOnlyForOwnRelease ==
  \A c \in Calls :
    (call[c].pc = "done" /\ call[c].result \in {ResExists, ResConflict}) =>
       \E r \in releases : r.name = NameOf(c) /\ r.devboxName = Ws

====
